---- MODULE Spec2Model ----
(***************************************************************************)
(* Verification model of the persistence matrix engine:                    *)
(*   - Naive_vector_column (sorted vector of cells over Z/2 or Z/p),       *)
(*   - Base_matrix_with_column_compression (union-find of column classes,  *)
(*     dictionary of representative columns).                              *)
(*   - Z2_unordered_set_column (lazy pivot), boundary and chain columns    *)
(*     with stored pivot and dimension, the cell factory and the row       *)
(*     containers, and the standard reduction of the boundary matrix.      *)
(* A cell is a record [row, el]; a column is the sequence column_ of its   *)
(* cells in container order.  In the Z/2 configuration a cell carries no   *)
(* element: it is represented with el = 1.                                 *)
(***************************************************************************)
EXTENDS Integers, Sequences, FiniteSets, TLC

\* ---------------------------------------------------------------- bounds
\* Number of column indices a matrix may hold (insertions are capped here).
MaxColumns == 3
\* Row indices are 0 .. NumRows-1.
NumRows == 2

Rows == 0 .. (NumRows - 1)

\* Vertex identifiers of the towers, and the filtration size up to which
\* tower operations are explored.
NumVertices == 4
MaxFiltrationSize == 8

\* Simplex files: lines per file, largest number written, largest dimension.
MaxLines == 2
MaxToken == 2
MaxDim == 2

\* Witness complexes: witnesses, landmarks, largest squared distance (and
\* relaxation), largest limit dimension.
NumWitnesses == 2
NumLandmarks == 3
MaxDistance == 1
MaxLimitDimension == 3

\* Field characteristics of the Z/p configurations that are explored.
Characteristics == {2, 3}

\* Option bundles: is_z2 selects the element-free Z/2 code paths, otherwise
\* the Z/p paths run with the field operators of characteristic p.
Options ==
  {[is_z2 |-> TRUE, p |-> 2]} \cup {[is_z2 |-> FALSE, p |-> q] : q \in Characteristics}

\* ------------------------------------------------------ field operators
\* Field_operators::get_value: the normalised representative of v.
get_value(opt, v) ==
  v % opt.p

\* Field_operators::add_inplace(e1, e2): e1 <- e1 + e2.
add_inplace(opt, e1, e2) ==
  (e1 + e2) % opt.p

\* Field_operators::multiply_inplace(e1, e2): e1 <- e1 * e2.
multiply_inplace(opt, e1, e2) ==
  (e1 * e2) % opt.p

\* Field_operators::multiply_and_add_inplace_front(e1, m, e2): e1 <- e1 * m + e2.
multiply_and_add_inplace_front(opt, e1, m, e2) ==
  (e1 * m + e2) % opt.p

\* Field_operators::multiply_and_add_inplace_back(e1, m, e2): e2 <- e1 * m + e2.
multiply_and_add_inplace_back(opt, e1, m, e2) ==
  (e1 * m + e2) % opt.p

get_additive_identity == 0
get_multiplicative_identity == 1

\* ------------------------------------------------------------- columns
Cell(r, e) ==
  [row |-> r, el |-> e]

\* The non-zero field values of a configuration (Z/2: the implicit 1).
NonZero(opt) ==
  1 .. (opt.p - 1)

\* All boundaries a column can be built from: (row, coefficient) pairs sorted
\* by strictly increasing row, every listed coefficient non-zero
\* (the constructor parameter is the list of the non-zero row indices).
RECURSIVE BoundariesFrom(_, _)
BoundariesFrom(opt, r) ==
  IF r >= NumRows THEN {<<>>}
  ELSE LET rest == BoundariesFrom(opt, r + 1)
       IN rest \cup {<<Cell(r, e)>> \o b : e \in NonZero(opt), b \in rest}

Boundaries(opt) ==
  BoundariesFrom(opt, 0)

\* Constructor from a range: one cell per entry, in the given order
\* (_update_cell at positions 0, 1, ...), the value normalised by get_value.
Naive_vector_column(opt, nonZeroRowIndices) ==
  [i \in 1 .. Len(nonZeroRowIndices) |->
     Cell(nonZeroRowIndices[i].row,
          IF opt.is_z2 THEN 1 ELSE get_value(opt, nonZeroRowIndices[i].el))]

is_empty(column_) ==
  column_ = <<>>

\* get_content(columnLength): dense expansion; columnLength < 0 stands for
\* "up to the last stored row".
get_content(column_, columnLength) ==
  LET len == IF columnLength < 0
             THEN (IF Len(column_) > 0 THEN column_[Len(column_)].row + 1 ELSE 0)
             ELSE columnLength
      \* cells are read from the front until the first row >= len
      Stop == {i \in 1 .. Len(column_) : column_[i].row >= len}
      last == IF Stop = {} THEN Len(column_)
              ELSE (CHOOSE i \in Stop : \A j \in Stop : i <= j) - 1
      \* later writes to the same slot overwrite earlier ones
      Writers(r) == {i \in 1 .. last : column_[i].row = r}
  IN [r \in 0 .. (len - 1) |->
        IF Writers(r) = {} THEN 0
        ELSE column_[CHOOSE i \in Writers(r) : \A j \in Writers(r) : j <= i].el]

\* Faulty variant of get_pivot: the row of the first cell is returned.
get_pivot_of_front(column_) ==
  IF column_ = <<>> THEN -1 ELSE column_[1].row

\* get_pivot of a boundary-type column: row of the last cell, -1 if none.
get_pivot(column_) ==
  IF column_ = <<>> THEN -1 ELSE column_[Len(column_)].row

\* clear(): destroys every cell.
clear(column_) ==
  <<>>

\* clear(rowIndex): linear search for the first cell of that row, erased if found.
clear_row(column_, rowIndex) ==
  LET Hits == {i \in 1 .. Len(column_) : column_[i].row = rowIndex}
  IN IF Hits = {} THEN column_
     ELSE LET k == CHOOSE i \in Hits : \A j \in Hits : i <= j
          IN SubSeq(column_, 1, k - 1) \o SubSeq(column_, k + 1, Len(column_))

\* std::sort of the cell pointers by row index.
RECURSIVE SortByRow(_)
SortByRow(cells) ==
  IF cells = <<>> THEN <<>>
  ELSE LET k == CHOOSE i \in 1 .. Len(cells) : \A j \in 1 .. Len(cells) : cells[i].row <= cells[j].row
       IN <<cells[k]>> \o SortByRow(SubSeq(cells, 1, k - 1) \o SubSeq(cells, k + 1, Len(cells)))

\* Faulty variant of reorder: the container is not sorted after the rows
\* have been replaced.
reorder_without_sort(column_, valueMap) ==
  [i \in 1 .. Len(column_) |-> Cell(valueMap[column_[i].row], column_[i].el)]

\* Faulty variant of reorder: the row indices are sorted on their own, every
\* value staying at its position in the container.
reorder_rows_only(column_, valueMap) ==
  LET sorted == SortByRow([i \in 1 .. Len(column_) |-> Cell(valueMap[column_[i].row], column_[i].el)])
  IN [i \in 1 .. Len(column_) |-> Cell(sorted[i].row, column_[i].el)]

\* reorder(valueMap): every cell's row is replaced by valueMap.at(row), then
\* the container is sorted.
reorder(column_, valueMap) ==
  SortByRow([i \in 1 .. Len(column_) |-> Cell(valueMap[column_[i].row], column_[i].el)])

\* ------------------------------------------------- column arithmetic
\* Merge loop of _add, from positions i (target) and j (source) on: the cells
\* pushed on newColumn.  After the loop the rest of the source is inserted,
\* then the rest of the target is pushed.
RECURSIVE AddLoop(_, _, _, _, _)
AddLoop(opt, column_, column, i, j) ==
  IF i > Len(column_) \/ j > Len(column)
  THEN SubSeq(column, j, Len(column)) \o SubSeq(column_, i, Len(column_))
  ELSE IF column_[i].row < column[j].row
       THEN <<column_[i]>> \o AddLoop(opt, column_, column, i + 1, j)
  ELSE IF column_[i].row > column[j].row
       THEN <<column[j]>> \o AddLoop(opt, column_, column, i, j + 1)
  ELSE IF opt.is_z2
       THEN AddLoop(opt, column_, column, i + 1, j + 1)
  ELSE LET e == add_inplace(opt, column_[i].el, column[j].el)
       IN IF e = get_additive_identity
          THEN AddLoop(opt, column_, column, i + 1, j + 1)
          ELSE <<Cell(column_[i].row, e)>> \o AddLoop(opt, column_, column, i + 1, j + 1)

\* Faulty variant of _add: on equal rows the sum is stored whatever its
\* value, a zero sum included.
RECURSIVE AddLoop_keeping_zero(_, _, _, _, _)
AddLoop_keeping_zero(opt, column_, column, i, j) ==
  IF i > Len(column_) \/ j > Len(column)
  THEN SubSeq(column, j, Len(column)) \o SubSeq(column_, i, Len(column_))
  ELSE IF column_[i].row < column[j].row
       THEN <<column_[i]>> \o AddLoop_keeping_zero(opt, column_, column, i + 1, j)
  ELSE IF column_[i].row > column[j].row
       THEN <<column[j]>> \o AddLoop_keeping_zero(opt, column_, column, i, j + 1)
  ELSE <<Cell(column_[i].row, add_inplace(opt, column_[i].el, column[j].el))>>
       \o AddLoop_keeping_zero(opt, column_, column, i + 1, j + 1)

_add_keeping_zero(opt, column_, column) ==
  IF column = <<>> THEN column_
  ELSE IF column_ = <<>> THEN column
  ELSE AddLoop_keeping_zero(opt, column_, column, 1, 1)

\* _add(column): this <- this + column.
_add(opt, column_, column) ==
  IF column = <<>> THEN column_
  ELSE IF column_ = <<>> THEN column
  ELSE AddLoop(opt, column_, column, 1, 1)

\* Merge loop of _multiply_target_and_add: target-only cells are multiplied
\* by val, equal rows get el * val + source, source-only cells are inserted.
\* After the loop the rest of the target (multiplied) is pushed, then the
\* rest of the source is inserted.
RECURSIVE MultiplyTargetLoop(_, _, _, _, _, _)
MultiplyTargetLoop(opt, val, column_, column, i, j) ==
  IF i > Len(column_) \/ j > Len(column)
  THEN [k \in 1 .. (Len(column_) - i + 1) |->
          Cell(column_[i + k - 1].row, multiply_inplace(opt, column_[i + k - 1].el, val))]
       \o SubSeq(column, j, Len(column))
  ELSE IF column_[i].row < column[j].row
       THEN <<Cell(column_[i].row, multiply_inplace(opt, column_[i].el, val))>>
            \o MultiplyTargetLoop(opt, val, column_, column, i + 1, j)
  ELSE IF column_[i].row > column[j].row
       THEN <<column[j]>> \o MultiplyTargetLoop(opt, val, column_, column, i, j + 1)
  ELSE LET e == multiply_and_add_inplace_front(opt, column_[i].el, val, column[j].el)
       IN IF e = get_additive_identity
          THEN MultiplyTargetLoop(opt, val, column_, column, i + 1, j + 1)
          ELSE <<Cell(column_[i].row, e)>> \o MultiplyTargetLoop(opt, val, column_, column, i + 1, j + 1)

\* Faulty variant of _multiply_target_and_add: an empty source returns at
\* once, as in _add, so the target is not multiplied.
_multiply_target_and_add_returning_on_empty(opt, val, column_, column, sameObject) ==
  IF column = <<>> THEN column_
  ELSE LET tgt == IF val = 0 THEN clear(column_) ELSE column_
       IN IF tgt = <<>> THEN column
          ELSE MultiplyTargetLoop(opt, val, tgt, column, 1, 1)

\* _multiply_target_and_add(val, column): this <- val * this + column.
\* sameObject tells that column is this very object (the source resolved to
\* the target's physical column): clear() then empties the source as well.
_multiply_target_and_add(opt, val, column_, column, sameObject) ==
  LET cleared == (val = 0)
      tgt == IF cleared THEN clear(column_) ELSE column_
      src == IF cleared /\ sameObject THEN clear(column) ELSE column
  IN IF tgt = <<>> THEN src
     ELSE MultiplyTargetLoop(opt, val, tgt, src, 1, 1)

\* Merge loop of _multiply_source_and_add: source-only cells are inserted
\* and multiplied by val, equal rows get source * val + el.
RECURSIVE MultiplySourceLoop(_, _, _, _, _, _)
MultiplySourceLoop(opt, val, column_, column, i, j) ==
  IF i > Len(column_) \/ j > Len(column)
  THEN [k \in 1 .. (Len(column) - j + 1) |->
          Cell(column[j + k - 1].row, multiply_inplace(opt, column[j + k - 1].el, val))]
       \o SubSeq(column_, i, Len(column_))
  ELSE IF column_[i].row < column[j].row
       THEN <<column_[i]>> \o MultiplySourceLoop(opt, val, column_, column, i + 1, j)
  ELSE IF column_[i].row > column[j].row
       THEN <<Cell(column[j].row, multiply_inplace(opt, column[j].el, val))>>
            \o MultiplySourceLoop(opt, val, column_, column, i, j + 1)
  ELSE LET e == multiply_and_add_inplace_back(opt, column[j].el, val, column_[i].el)
       IN IF e = get_additive_identity
          THEN MultiplySourceLoop(opt, val, column_, column, i + 1, j + 1)
          ELSE <<Cell(column_[i].row, e)>> \o MultiplySourceLoop(opt, val, column_, column, i + 1, j + 1)

\* _multiply_source_and_add(column, val): this <- this + val * column.
_multiply_source_and_add(opt, column_, column, val) ==
  IF val = 0 \/ column = <<>> THEN column_
  ELSE MultiplySourceLoop(opt, val, column_, column, 1, 1)

\* operator+=(column) of a base or boundary column.
operator_plus_assign(opt, column_, column) ==
  _add(opt, column_, column)

\* Faulty variant of operator*=: v is used as given, without get_value.
operator_times_assign_without_get_value(opt, column_, v) ==
  IF opt.is_z2
  THEN (IF v % 2 = 0 THEN clear(column_) ELSE column_)
  ELSE IF v = get_additive_identity THEN clear(column_)
       ELSE IF v = get_multiplicative_identity THEN column_
       ELSE [i \in 1 .. Len(column_) |->
               Cell(column_[i].row, multiply_inplace(opt, column_[i].el, v))]

\* operator*=(v), v any unsigned value, of a base or boundary column.
operator_times_assign(opt, column_, v) ==
  IF opt.is_z2
  THEN (IF v % 2 = 0 THEN clear(column_) ELSE column_)
  ELSE LET val == get_value(opt, v)
       IN IF val = get_additive_identity THEN clear(column_)
          ELSE IF val = get_multiplicative_identity THEN column_
          ELSE [i \in 1 .. Len(column_) |->
                  Cell(column_[i].row, multiply_inplace(opt, column_[i].el, val))]

\* multiply_target_and_add(val, column) of a base or boundary column.
multiply_target_and_add(opt, val, column_, column, sameObject) ==
  IF opt.is_z2
  THEN (IF val # 0 THEN _add(opt, column_, column)
        ELSE _add(opt, clear(column_), IF sameObject THEN clear(column) ELSE column))
  ELSE _multiply_target_and_add(opt, val, column_, column, sameObject)

\* multiply_source_and_add(column, val) of a base or boundary column.
multiply_source_and_add(opt, column_, column, val) ==
  IF opt.is_z2
  THEN (IF val # 0 THEN _add(opt, column_, column) ELSE column_)
  ELSE _multiply_source_and_add(opt, column_, column, val)

\* operator<(c1, c2): the order that keys the dictionary of columns.
RECURSIVE LessLoop(_, _, _, _)
LessLoop(opt, c1, c2, i) ==
  IF i > Len(c1) \/ i > Len(c2) THEN i <= Len(c2)
  ELSE IF c1[i].row # c2[i].row THEN c1[i].row < c2[i].row
  ELSE IF (~opt.is_z2) /\ c1[i].el # c2[i].el THEN c1[i].el < c2[i].el
  ELSE LessLoop(opt, c1, c2, i + 1)

\* Faulty variant of operator<: the values are never compared.
operator_less_ignoring_values(opt, c1, c2) ==
  LessLoop([opt EXCEPT !.is_z2 = TRUE], c1, c2, 1)

operator_less(opt, c1, c2) ==
  LessLoop(opt, c1, c2, 1)

\* operator==(c1, c2) of two column objects: equal sizes, then the same row
\* (and, outside Z/2, the same value) at every position.
operator_equal(opt, c1, c2) ==
  /\ Len(c1) = Len(c2)
  /\ \A i \in 1 .. Len(c1) :
       /\ c1[i].row = c2[i].row
       /\ opt.is_z2 \/ c1[i].el = c2[i].el

\* --------------------------------------------- compressed base matrix
\* Boundaries and cell ranges handed to the matrix: the columns over row 0.
\* (The matrix only compares and forwards columns; the column arithmetic on
\* several rows is explored by ColSpec.)
MatrixBoundaries(o) ==
  {<<>>} \cup {<<Cell(0, e)>> : e \in NonZero(o)}

\* Addresses of the column pool; nullptr is 0.
Addresses == 1 .. MaxColumns
nullptr == 0

\* A slot of the pool that holds no constructed column.
FreeSlot ==
  [live |-> FALSE, rep |-> -1, column_ |-> <<>>]

\* inline static const Column_type empty_column_: what get_column returns
\* for a class without a physical column.
empty_column_ ==
  <<>>

VARIABLES
  opt,               \* option bundle of the run (fixed at construction)
  columnToRep_,      \* dictionary: set of addresses of the stored columns
  columnClasses_,    \* union-find: [parent, rank], both indexed from 0
  repToColumn_,      \* representative index -> address of its column, or nullptr
  nextColumnIndex_,  \* next unused column index
  columnPool_,       \* address -> [live, rep, column_]
  fault,             \* "none", or how a null dereference ended the run
  last,              \* the last call made on the matrix
  cols,              \* the two column objects of the column-level runs
  colLast,           \* the last call made on a column object
  usets,             \* the two Z2_unordered_set_column objects
  is_of_boundary_type, \* option of the typed columns: boundary (TRUE) or chain (FALSE)
  typed,             \* the two typed columns: [column_, pivot_, dim_]
  typedLast,         \* the last call made on a typed column
  R,                 \* the reduced boundary matrix: its columns, indexed from 0
  pivot_table,       \* row -> index of the column of R owning it as pivot, or -1
  ruLast,            \* the last insertion into R
  has_row_access,    \* option of the columns below: row access enabled
  cellColumns,       \* the two columns whose cells are followed: [live, column_]
  cellPool_,         \* cell factory: cell -> number constructed and not destroyed
  rowContainer,      \* row -> column index -> number of its cells linked in the row
  cellLast,           \* the method called last on one of these columns
  copy, \* the matrix made from the first one by copy: [made, m, fault]
  copyLast, \* the last call that made or changed the copy
  chains, \* the two Vector_chain_column objects, of column index 0 and 1: [column_, pivot_]
  pivotToColumnIndex_, \* the dictionary both refer to: pivot -> column index, on the keys it holds
  chainLast, \* the last operator+= between the two
  complex_, \* Tower_converter: the simplices of the current complex, as sets of vertices
  maxIndex_, \* identifier the complex gave to the simplex inserted last, -1 before any
  vertices_, \* vertex identifier of the caller -> vertex of the complex
  outputStream_, \* number of lines written to the output file, or NULL
  filtrationSize_, \* current filtration size
  towerWidth_, \* current tower width
  towerLast, \* the last tower operation, with what it returned
  file, \* the records of the input file, one simplex per line: [dim, simplex, fil]
  in_, \* the tokens not yet extracted from the stream read_simplex is called on
  calls, \* number of calls of read_simplex made on the stream
  ioLast, \* the last reading function called, with what it returned
  nearest_landmark_table_, \* Witness_complex: for every witness its landmarks with squared distances, nearest first
  complex, \* the simplicial complex handed to create_complex: [simplices, dimension]
  witnessLast \* the last call of create_complex

matrixVars == <<opt, columnToRep_, columnClasses_, repToColumn_, nextColumnIndex_, columnPool_, fault, last>>
colVars == <<cols, colLast>>
usetVars == <<usets>>
typedVars == <<is_of_boundary_type, typed, typedLast>>
ruVars == <<R, pivot_table, ruLast>>
cellVars == <<has_row_access, cellColumns, cellPool_, rowContainer, cellLast>>
copyVars == <<copy, copyLast>>
chainVars == <<chains, pivotToColumnIndex_, chainLast>>
towerVars == <<complex_, maxIndex_, vertices_, outputStream_, filtrationSize_, towerWidth_, towerLast>>
ioVars == <<file, in_, calls, ioLast>>
witnessVars == <<nearest_landmark_table_, complex, witnessLast>>
vars == <<matrixVars, colVars, usetVars, typedVars, ruVars, cellVars, copyVars, chainVars, towerVars, ioVars, witnessVars>>

\* What the operations of one class leave alone: the objects of the others.
OutsideMatrix == <<colVars, usetVars, typedVars, ruVars, cellVars, copyVars, chainVars, towerVars, ioVars, witnessVars>>
OutsideColumns == <<matrixVars, usetVars, typedVars, ruVars, cellVars, copyVars, chainVars, towerVars, ioVars, witnessVars>>
OutsideUsets == <<matrixVars, colVars, typedVars, ruVars, cellVars, copyVars, chainVars, towerVars, ioVars, witnessVars>>
OutsideTyped == <<matrixVars, colVars, usetVars, ruVars, cellVars, copyVars, chainVars, towerVars, ioVars, witnessVars>>
OutsideRu == <<matrixVars, colVars, usetVars, typedVars, cellVars, copyVars, chainVars, towerVars, ioVars, witnessVars>>
OutsideCells == <<matrixVars, colVars, usetVars, typedVars, ruVars, copyVars, chainVars, towerVars, ioVars, witnessVars>>
OutsideCopy == <<matrixVars, colVars, usetVars, typedVars, ruVars, cellVars, chainVars, towerVars, ioVars, witnessVars>>
OutsideChain == <<matrixVars, colVars, usetVars, typedVars, ruVars, cellVars, copyVars, towerVars, ioVars, witnessVars>>
OutsideTower == <<matrixVars, colVars, usetVars, typedVars, ruVars, cellVars, copyVars, chainVars, ioVars, witnessVars>>
OutsideIo == <<matrixVars, colVars, usetVars, typedVars, ruVars, cellVars, copyVars, chainVars, towerVars, witnessVars>>
OutsideWitness == <<matrixVars, colVars, usetVars, typedVars, ruVars, cellVars, copyVars, chainVars, towerVars, ioVars>>

\* The matrix object as one record, for the operators below.
Matrix ==
  [columnToRep_ |-> columnToRep_, columnClasses_ |-> columnClasses_,
   repToColumn_ |-> repToColumn_, nextColumnIndex_ |-> nextColumnIndex_,
   columnPool_ |-> columnPool_]

\* Number of entries of a vector indexed from 0.
Size(f) ==
  Cardinality(DOMAIN f)

\* push_back on a vector indexed from 0.
PushBack(f, v) ==
  [i \in 0 .. Size(f) |-> IF i < Size(f) THEN f[i] ELSE v]

\* boost::disjoint_sets_with_storage(n): n singletons of rank 0.
disjoint_sets_with_storage(n) ==
  [parent |-> [i \in 0 .. (n - 1) |-> i], rank |-> [i \in 0 .. (n - 1) |-> 0]]

\* find_set: follows the parents up to the root (path compression changes
\* no representative and is left out).
RECURSIVE find_set(_, _)
find_set(classes, x) ==
  IF classes.parent[x] = x THEN x ELSE find_set(classes, classes.parent[x])

\* extend_sets: grows parent and rank so that element x exists.
extend_sets(classes, x) ==
  IF x + 1 > Size(classes.parent)
  THEN [parent |-> [i \in 0 .. x |-> IF i < Size(classes.parent) THEN classes.parent[i] ELSE i],
        rank |-> [i \in 0 .. x |-> IF i < Size(classes.rank) THEN classes.rank[i] ELSE 0]]
  ELSE classes

\* Faulty variant of link: the union forgets every earlier one.
link_forgetting_unions(classes, x, y) ==
  LET c == extend_sets(classes, IF x > y THEN x ELSE y)
      i == find_set(c, x)
      j == find_set(c, y)
  IN IF i = j THEN c
     ELSE [c EXCEPT !.parent = [k \in DOMAIN c.parent |-> IF k = i THEN j ELSE k]]

\* link(x, y): extend_sets, then union by rank of the two representatives.
link(classes, x, y) ==
  LET c == extend_sets(classes, IF x > y THEN x ELSE y)
      i == find_set(c, x)
      j == find_set(c, y)
  IN IF i = j THEN c
     ELSE IF c.rank[i] > c.rank[j]
          THEN [c EXCEPT !.parent[j] = i]
          ELSE [c EXCEPT !.parent[i] = j,
                         !.rank[j] = IF c.rank[i] = c.rank[j] THEN c.rank[j] + 1 ELSE c.rank[j]]

\* columnPool_.construct: the new column lives at the lowest free address.
construct(pool, column_) ==
  LET a == CHOOSE x \in Addresses : (~pool[x].live) /\ \A y \in Addresses : (~pool[y].live) => x <= y
  IN [addr |-> a, pool |-> [pool EXCEPT ![a] = [live |-> TRUE, rep |-> -1, column_ |-> column_]]]

\* columnPool_.destroy.
destroy(pool, a) ==
  [pool EXCEPT ![a] = FreeSlot]

\* columnToRep_.insert(col): the address of an equivalent stored column if
\* there is one (col is then not inserted), else col's own address.
dict_insert(o, m, a) ==
  LET Same == {d \in m.columnToRep_ :
                 (~operator_less(o, m.columnPool_[d].column_, m.columnPool_[a].column_))
                 /\ ~operator_less(o, m.columnPool_[a].column_, m.columnPool_[d].column_)}
  IN IF Same = {} THEN [first |-> a, dict |-> m.columnToRep_ \cup {a}]
     ELSE [first |-> CHOOSE d \in Same : TRUE, dict |-> m.columnToRep_]

\* columnToRep_.erase(target): erases by key, i.e. every stored column
\* equivalent to target.
dict_erase(o, m, a) ==
  {d \in m.columnToRep_ :
     operator_less(o, m.columnPool_[d].column_, m.columnPool_[a].column_)
     \/ operator_less(o, m.columnPool_[a].column_, m.columnPool_[d].column_)}

\* Faulty variant of _insert_double_column: the column pointers are not
\* swapped when the union-find keeps columnIndex as representative.
_insert_double_column_without_swap(m, columnIndex, doubleIt) ==
  LET doubleRep == m.columnPool_[doubleIt].rep
      classes == link(m.columnClasses_, columnIndex, doubleRep)
  IN [m EXCEPT !.columnClasses_ = classes,
               !.repToColumn_ = [m.repToColumn_ EXCEPT ![columnIndex] = nullptr],
               !.columnPool_ = destroy(m.columnPool_, m.repToColumn_[columnIndex])]

\* _insert_double_column(columnIndex, doubleIt): the column at columnIndex
\* duplicates the stored column at address doubleIt.
_insert_double_column(m, columnIndex, doubleIt) ==
  LET doubleRep == m.columnPool_[doubleIt].rep
      classes == link(m.columnClasses_, columnIndex, doubleRep)
      newRep == find_set(classes, columnIndex)
      pool1 == destroy(m.columnPool_, m.repToColumn_[columnIndex])
      rep1 == [m.repToColumn_ EXCEPT ![columnIndex] = nullptr]
  IN IF newRep = columnIndex
     THEN [m EXCEPT !.columnClasses_ = classes,
                    !.repToColumn_ = [rep1 EXCEPT ![doubleRep] = rep1[columnIndex],
                                                  ![columnIndex] = rep1[doubleRep]],
                    !.columnPool_ = [pool1 EXCEPT ![doubleIt].rep = columnIndex]]
     ELSE [m EXCEPT !.columnClasses_ = classes,
                    !.repToColumn_ = rep1,
                    !.columnPool_ = pool1]

\* Faulty variant of _insert_column: an empty column is registered like any
\* other instead of being destroyed.
_insert_column_keeping_empty(o, m, columnIndex) ==
  LET a == m.repToColumn_[columnIndex]
      m1 == [m EXCEPT !.columnPool_[a].rep = columnIndex]
      res == dict_insert(o, m1, a)
      m2 == [m1 EXCEPT !.columnToRep_ = res.dict]
  IN IF m2.columnPool_[res.first].rep # columnIndex
     THEN _insert_double_column(m2, columnIndex, res.first)
     ELSE m2

\* Faulty variant of _insert_column: the result of the dictionary insertion
\* is ignored, so a redundant column is never linked to its double.
_insert_column_without_double(o, m, columnIndex) ==
  LET a == m.repToColumn_[columnIndex]
  IN IF is_empty(m.columnPool_[a].column_)
     THEN [m EXCEPT !.columnPool_ = destroy(m.columnPool_, a),
                    !.repToColumn_[columnIndex] = nullptr]
     ELSE [m EXCEPT !.columnPool_[a].rep = columnIndex,
                    !.columnToRep_ = m.columnToRep_ \cup {a}]

\* _insert_column(columnIndex): registers the column stored at
\* repToColumn_[columnIndex] (an empty one is destroyed instead).
_insert_column(o, m, columnIndex) ==
  LET a == m.repToColumn_[columnIndex]
  IN IF is_empty(m.columnPool_[a].column_)
     THEN [m EXCEPT !.columnPool_ = destroy(m.columnPool_, a),
                    !.repToColumn_[columnIndex] = nullptr]
     ELSE LET m1 == [m EXCEPT !.columnPool_[a].rep = columnIndex]
              res == dict_insert(o, m1, a)
              m2 == [m1 EXCEPT !.columnToRep_ = res.dict]
          IN IF m2.columnPool_[res.first].rep # columnIndex
             THEN _insert_double_column(m2, columnIndex, res.first)
             ELSE m2

\* Faulty variant of get_column: repToColumn_ is indexed by the column index
\* itself instead of its representative.
get_column_without_find_set(m, columnIndex) ==
  LET col == m.repToColumn_[columnIndex]
  IN IF col = nullptr THEN empty_column_ ELSE m.columnPool_[col].column_

\* get_column(columnIndex): content of the class's column.
get_column(m, columnIndex) ==
  LET col == m.repToColumn_[find_set(m.columnClasses_, columnIndex)]
  IN IF col = nullptr THEN empty_column_ ELSE m.columnPool_[col].column_

\* is_zero_column(columnIndex).
is_zero_column(m, columnIndex) ==
  LET col == m.repToColumn_[find_set(m.columnClasses_, columnIndex)]
  IN IF col = nullptr THEN TRUE ELSE is_empty(m.columnPool_[col].column_)

\* is_non_zero(rowIndex) of a column: binary search for the row.
is_non_zero(column_, rowIndex) ==
  \E i \in 1 .. Len(column_) : column_[i].row = rowIndex

\* is_zero_cell(columnIndex, rowIndex).
is_zero_cell(m, columnIndex, rowIndex) ==
  LET col == m.repToColumn_[find_set(m.columnClasses_, columnIndex)]
  IN IF col = nullptr THEN TRUE ELSE ~is_non_zero(m.columnPool_[col].column_, rowIndex)

get_number_of_columns(m) ==
  m.nextColumnIndex_

\* -------------------------------------------------- matrix operations
\* A source argument: a column index (idx >= 0) or a cell range.
IndexSource(i) ==
  [idx |-> i, range |-> <<>>]

RangeSource(r) ==
  [idx |-> -1, range |-> r]

Sources(o, m) ==
  {IndexSource(i) : i \in 0 .. (m.nextColumnIndex_ - 1)}
    \cup {RangeSource(r) : r \in MatrixBoundaries(o)}

\* What the column operation reads as its source: get_column(sourceColumn)
\* for an index, the range itself otherwise.
SourceColumn(m, src) ==
  IF src.idx >= 0 THEN get_column(m, src.idx) ELSE src.range

\* Whether get_column(sourceColumn) is the target object itself.
SameObject(m, src, target) ==
  src.idx >= 0 /\ m.repToColumn_[find_set(m.columnClasses_, src.idx)] = target

\* insert_boundary(boundary, dim): dim is not stored.
insert_boundary_op(o, m, boundary) ==
  LET next == m.nextColumnIndex_
      grown == (Size(m.repToColumn_) = next)
      classes == IF grown THEN link(m.columnClasses_, next, next) ELSE m.columnClasses_
      c == construct(m.columnPool_, Naive_vector_column(o, boundary))
      rep == IF grown THEN PushBack(m.repToColumn_, c.addr)
             ELSE [m.repToColumn_ EXCEPT ![next] = c.addr]
      m1 == [m EXCEPT !.columnClasses_ = classes, !.repToColumn_ = rep, !.columnPool_ = c.pool]
      m2 == _insert_column(o, m1, next)
  IN [m2 EXCEPT !.nextColumnIndex_ = next + 1]

\* The shared frame of add_to, multiply_target_and_add_to and
\* multiply_source_and_add_to: resolve the target's representative,
\* dereference its column (a null pointer is dereferenced when the class has
\* no column), erase it from the dictionary, apply the column operation,
\* register the result.  kind selects the column operation.
ColumnOperation(o, kind, coefficient, column_, column, sameObject) ==
  IF kind = "add_to" THEN operator_plus_assign(o, column_, column)
  ELSE IF kind = "multiply_target_and_add_to"
       THEN multiply_target_and_add(o, coefficient, column_, column, sameObject)
  ELSE multiply_source_and_add(o, column_, column, coefficient)

\* Faulty variant of ApplyToTarget: a source given by index is scaled in
\* place by the coefficient before it is added.
ApplyToTarget_scaling_source(o, m, kind, src, coefficient, targetColumnIndex) ==
  LET targetRep == find_set(m.columnClasses_, targetColumnIndex)
      target == m.repToColumn_[targetRep]
      source == IF src.idx >= 0
                THEN m.repToColumn_[find_set(m.columnClasses_, src.idx)]
                ELSE nullptr
  IN IF target = nullptr THEN [nullDeref |-> TRUE, m |-> m]
     ELSE LET m1 == [m EXCEPT !.columnToRep_ = dict_erase(o, m, target)]
              result == ColumnOperation(o, kind, coefficient, m1.columnPool_[target].column_,
                                        SourceColumn(m1, src), SameObject(m1, src, target))
              m2 == [m1 EXCEPT !.columnPool_[target].column_ = result]
              m3 == IF source # nullptr /\ source # target
                    THEN [m2 EXCEPT !.columnPool_[source].column_ =
                            operator_times_assign(o, m2.columnPool_[source].column_, coefficient)]
                    ELSE m2
          IN [nullDeref |-> FALSE, m |-> _insert_column(o, m3, targetRep)]

\* Faulty variant of ApplyToTarget: the result is written into every stored
\* column, not into the target's alone.
ApplyToTarget_writing_every_column(o, m, kind, src, coefficient, targetColumnIndex) ==
  LET targetRep == find_set(m.columnClasses_, targetColumnIndex)
      target == m.repToColumn_[targetRep]
  IN IF target = nullptr THEN [nullDeref |-> TRUE, m |-> m]
     ELSE LET m1 == [m EXCEPT !.columnToRep_ = dict_erase(o, m, target)]
              result == ColumnOperation(o, kind, coefficient, m1.columnPool_[target].column_,
                                        SourceColumn(m1, src), SameObject(m1, src, target))
              m2 == [m1 EXCEPT !.columnPool_ =
                       [a \in Addresses |->
                          IF m1.columnPool_[a].live
                          THEN [m1.columnPool_[a] EXCEPT !.column_ = result]
                          ELSE m1.columnPool_[a]]]
          IN [nullDeref |-> FALSE, m |-> _insert_column(o, m2, targetRep)]

\* The frame of the three additions, as the code has it.
ApplyToTarget(o, m, kind, src, coefficient, targetColumnIndex) ==
  LET targetRep == find_set(m.columnClasses_, targetColumnIndex)
      target == m.repToColumn_[targetRep]
  IN IF target = nullptr THEN [nullDeref |-> TRUE, m |-> m]
     ELSE LET m1 == [m EXCEPT !.columnToRep_ = dict_erase(o, m, target)]
              result == ColumnOperation(o, kind, coefficient, m1.columnPool_[target].column_,
                                        SourceColumn(m1, src), SameObject(m1, src, target))
              m2 == [m1 EXCEPT !.columnPool_[target].column_ = result]
          IN [nullDeref |-> FALSE, m |-> _insert_column(o, m2, targetRep)]

add_to_op(o, m, src, targetColumnIndex) ==
  ApplyToTarget(o, m, "add_to", src, 1, targetColumnIndex)

multiply_target_and_add_to_op(o, m, src, coefficient, targetColumnIndex) ==
  ApplyToTarget(o, m, "multiply_target_and_add_to", src, coefficient, targetColumnIndex)

multiply_source_and_add_to_op(o, m, coefficient, src, targetColumnIndex) ==
  ApplyToTarget(o, m, "multiply_source_and_add_to", src, coefficient, targetColumnIndex)

\* Outcomes of dereferencing the null representative: the behaviour is
\* undefined; the run ends, either by a trap or in an unspecified way.
NullDerefOutcomes ==
  {"terminated", "unspecified"}

SetMatrix(m) ==
  /\ columnToRep_' = m.columnToRep_
  /\ columnClasses_' = m.columnClasses_
  /\ repToColumn_' = m.repToColumn_
  /\ nextColumnIndex_' = m.nextColumnIndex_
  /\ columnPool_' = m.columnPool_

\* The record of a call, with what the matrix read before it: the content of
\* every column index (before), the indices of the target's class (oldClass)
\* and the content of the source (oldSource).
Call(op, src, coefficient, t) ==
  [op |-> op, idx |-> src.idx, range |-> src.range, coef |-> coefficient, tgt |-> t,
   before |-> [i \in 0 .. (nextColumnIndex_ - 1) |-> get_column(Matrix, i)],
   oldClass |-> IF t < nextColumnIndex_
                THEN {i \in 0 .. (nextColumnIndex_ - 1) :
                        find_set(columnClasses_, i) = find_set(columnClasses_, t)}
                ELSE {},
   oldSource |-> SourceColumn(Matrix, src)]

\* Effect of a call whose result record is r.
Finish(r) ==
  IF r.nullDeref
  THEN /\ fault' \in NullDerefOutcomes
       /\ UNCHANGED <<columnToRep_, columnClasses_, repToColumn_, nextColumnIndex_, columnPool_>>
  ELSE /\ fault' = fault
       /\ SetMatrix(r.m)

insert_boundary(boundary) ==
  /\ fault = "none"
  /\ nextColumnIndex_ < MaxColumns
  /\ SetMatrix(insert_boundary_op(opt, Matrix, boundary))
  /\ last' = Call("insert_boundary", RangeSource(boundary), 0, nextColumnIndex_)
  /\ UNCHANGED <<opt, fault, OutsideMatrix>>

add_to(src, targetColumnIndex) ==
  /\ fault = "none"
  /\ Finish(add_to_op(opt, Matrix, src, targetColumnIndex))
  /\ last' = Call("add_to", src, 1, targetColumnIndex)
  /\ UNCHANGED <<opt, OutsideMatrix>>

multiply_target_and_add_to(src, coefficient, targetColumnIndex) ==
  /\ fault = "none"
  /\ Finish(multiply_target_and_add_to_op(opt, Matrix, src, coefficient, targetColumnIndex))
  /\ last' = Call("multiply_target_and_add_to", src, coefficient, targetColumnIndex)
  /\ UNCHANGED <<opt, OutsideMatrix>>

multiply_source_and_add_to(coefficient, src, targetColumnIndex) ==
  /\ fault = "none"
  /\ Finish(multiply_source_and_add_to_op(opt, Matrix, coefficient, src, targetColumnIndex))
  /\ last' = Call("multiply_source_and_add_to", src, coefficient, targetColumnIndex)
  /\ UNCHANGED <<opt, OutsideMatrix>>

\* Field elements handed in as coefficients.
Coefficients(o) ==
  0 .. (o.p - 1)

NoCall ==
  [op |-> "none", idx |-> -1, range |-> <<>>, coef |-> 0, tgt |-> -1,
   before |-> <<>>, oldClass |-> {}, oldSource |-> <<>>]

NoColCall ==
  [op |-> "none", tgt |-> 0, src |-> 0, val |-> 0, oldTarget |-> <<>>, oldSource |-> <<>>]

\* Base_matrix_with_column_compression(operators, cellConstructor) for
\* numberOfColumns = 0, Base_matrix_with_column_compression(numberOfColumns,
\* ...) otherwise.
MatrixInit(numberOfColumns) ==
  /\ columnToRep_ = {}
  /\ columnClasses_ = disjoint_sets_with_storage(numberOfColumns)
  /\ repToColumn_ = [i \in 0 .. (numberOfColumns - 1) |-> nullptr]
  /\ nextColumnIndex_ = 0
  /\ columnPool_ = [a \in Addresses |-> FreeSlot]
  /\ fault = "none"
  /\ last = NoCall

\* No column object exists outside the matrix.
NoColumns ==
  /\ cols = [k \in 1 .. 2 |-> <<>>]
  /\ colLast = NoColCall

\* Z2_unordered_set_column(): the default-constructed column.
Z2_unordered_set_column_default ==
  [dim_ |-> 0, column_ |-> {}, pivotChanged_ |-> FALSE, pivot_ |-> -1]

NoUsets ==
  usets = [k \in 1 .. 2 |-> Z2_unordered_set_column_default]

\* Naive_vector_column(): the default-constructed column, with its pivot
\* and dimension.
TypedColumn(column_, pivot_, dim_) ==
  [column_ |-> column_, pivot_ |-> pivot_, dim_ |-> dim_]

NoTypedCall ==
  [op |-> "none", tgt |-> 0, src |-> 0, val |-> 0, thrown |-> "none",
   oldTarget |-> TypedColumn(<<>>, -1, 0), oldSource |-> TypedColumn(<<>>, -1, 0)]

NoTyped ==
  /\ is_of_boundary_type = TRUE
  /\ typed = [k \in 1 .. 2 |-> TypedColumn(<<>>, -1, 0)]
  /\ typedLast = NoTypedCall

\* Cells of the factory: the column index given to construct (-1 when
\* construct is called with a row index only) and the row index.
PoolCell(columnIndex, rowIndex) ==
  [col |-> columnIndex, row |-> rowIndex]

PoolCells ==
  {PoolCell(c, r) : c \in {-1, 1, 2}, r \in Rows}

\* Cell_constructor with no cell constructed, row containers with no cell
\* linked.
EmptyPool ==
  [cell \in PoolCells |-> 0]

EmptyRows ==
  [r \in Rows |-> [c \in 1 .. 2 |-> 0]]

NoCellCall ==
  [op |-> "none"]

\* No column is followed cell by cell.
NoCells ==
  /\ has_row_access = FALSE
  /\ cellColumns = [k \in 1 .. 2 |-> [live |-> FALSE, column_ |-> <<>>]]
  /\ cellPool_ = EmptyPool
  /\ rowContainer = EmptyRows
  /\ cellLast = NoCellCall

\* No reduced boundary matrix exists.
NoRuCall ==
  [boundary |-> <<>>, reductions |-> 0]

NoRu ==
  /\ R = <<>>
  /\ pivot_table = [i \in Rows |-> -1]
  /\ ruLast = NoRuCall

\* Base_matrix_with_column_compression(operators, cellConstructor) as a record.
DefaultMatrix ==
  [columnToRep_ |-> {}, columnClasses_ |-> disjoint_sets_with_storage(0),
   repToColumn_ |-> <<>>, nextColumnIndex_ |-> 0,
   columnPool_ |-> [a \in Addresses |-> FreeSlot]]

NoCopyCall ==
  [op |-> "none", original |-> <<>>]

\* No copy of the matrix has been made.
NoCopy ==
  /\ copy = [made |-> FALSE, m |-> DefaultMatrix, fault |-> "none"]
  /\ copyLast = NoCopyCall

NoChainCall ==
  [op |-> "none", tgt |-> 0, src |-> 0, agreed |-> FALSE, injective |-> FALSE,
   swapped |-> FALSE, thrown |-> FALSE]

\* No Vector_chain_column exists.
NoChains ==
  /\ chains = [k \in 0 .. 1 |-> [column_ |-> <<>>, pivot_ |-> -1]]
  /\ pivotToColumnIndex_ = <<>>
  /\ chainLast = NoChainCall

\* The converter has no output file.
NULL == -1

NoTowerCall ==
  [op |-> "none", returned |-> -1, inserted |-> 0, first |-> -1, vectors |-> FALSE,
   oldSize |-> 0, oldWidth |-> 0]

\* Tower_converter(): empty complex, no vertex, both counters 0.
Tower_converter(stream) ==
  /\ complex_ = {}
  /\ maxIndex_ = -1
  /\ vertices_ = <<>>
  /\ outputStream_ = stream
  /\ filtrationSize_ = 0
  /\ towerWidth_ = 0
  /\ towerLast = NoTowerCall

NoTower ==
  Tower_converter(NULL)

NoIoCall ==
  [op |-> "none", graph |-> <<>>, lowGraph |-> <<>>, ok |-> FALSE, simplex |-> <<>>, fil |-> 0]

\* No file is read.
NoFile ==
  /\ file = <<>>
  /\ in_ = <<>>
  /\ calls = 0
  /\ ioLast = NoIoCall

NoWitnessCall ==
  [op |-> "none", class |-> "", limit_dimension |-> 0, returned |-> FALSE]

\* An empty simplicial complex; its dimension is not set.
EmptyComplex ==
  [simplices |-> {}, dimension |-> -1]

\* No witness complex is built.
NoWitnesses ==
  /\ nearest_landmark_table_ = <<>>
  /\ complex = EmptyComplex
  /\ witnessLast = NoWitnessCall

Init ==
  /\ opt \in Options
  /\ \E numberOfColumns \in {0, MaxColumns} : MatrixInit(numberOfColumns)
  /\ NoColumns
  /\ NoUsets
  /\ NoTyped
  /\ NoRu
  /\ NoCells
  /\ NoCopy
  /\ NoChains
  /\ NoTower
  /\ NoFile
  /\ NoWitnesses

Next ==
  \/ \E boundary \in MatrixBoundaries(opt) : insert_boundary(boundary)
  \/ \E src \in Sources(opt, Matrix), t \in 0 .. (nextColumnIndex_ - 1) : add_to(src, t)
  \/ \E src \in Sources(opt, Matrix), c \in Coefficients(opt), t \in 0 .. (nextColumnIndex_ - 1) :
       multiply_target_and_add_to(src, c, t)
  \/ \E src \in Sources(opt, Matrix), c \in Coefficients(opt), t \in 0 .. (nextColumnIndex_ - 1) :
       multiply_source_and_add_to(c, src, t)

Spec ==
  Init /\ [][Next]_vars

\* ------------------------------------------------ copies of the matrix
\* The loop of the copy constructor from index i on: every stored column of
\* `from` is constructed anew at the same index of `to`, and
\* nextColumnIndex_ counts every slot of from.repToColumn_.
RECURSIVE CopyColumns(_, _, _, _)
CopyColumns(o, from, to, i) ==
  IF i >= Size(from.repToColumn_) THEN to
  ELSE LET col == from.repToColumn_[i]
       IN IF col = nullptr
          THEN CopyColumns(o, from, [to EXCEPT !.nextColumnIndex_ = i + 1], i + 1)
          ELSE LET c == construct(to.columnPool_, from.columnPool_[col].column_)
                   t1 == [to EXCEPT !.repToColumn_[i] = c.addr, !.columnPool_ = c.pool]
                   t2 == [t1 EXCEPT !.columnToRep_ = dict_insert(o, t1, c.addr).dict,
                                    !.columnPool_[c.addr].rep = i,
                                    !.nextColumnIndex_ = i + 1]
               IN CopyColumns(o, from, t2, i + 1)

\* What the member initialisers of the copy constructor build.
CopiedMembers(matrixToCopy) ==
  [columnToRep_ |-> {}, columnClasses_ |-> matrixToCopy.columnClasses_,
   repToColumn_ |-> [i \in DOMAIN matrixToCopy.repToColumn_ |-> nullptr],
   nextColumnIndex_ |-> 0,
   columnPool_ |-> [a \in Addresses |-> FreeSlot]]

\* Base_matrix_with_column_compression(matrixToCopy, operators, cellConstructor).
copy_constructor(o, matrixToCopy) ==
  CopyColumns(o, matrixToCopy, CopiedMembers(matrixToCopy), 0)

\* operator=(other) on a default-constructed matrix: the loop constructs a
\* copy of *col for every slot of other.repToColumn_, null or not.
operator_assign(o, other) ==
  IF \E i \in DOMAIN other.repToColumn_ : other.repToColumn_[i] = nullptr
  THEN [m |-> DefaultMatrix, nullDeref |-> TRUE]
  ELSE [m |-> CopyColumns(o, other, CopiedMembers(other), 0), nullDeref |-> FALSE]

\* What the matrix shows: the content of every column index.
Contents(m) ==
  [i \in 0 .. (m.nextColumnIndex_ - 1) |-> get_column(m, i)]

CopyCall(op) ==
  [op |-> op, original |-> Contents(Matrix)]

\* The first matrix is built before it is copied.
OriginalInsertBoundary(boundary) ==
  /\ ~copy.made
  /\ insert_boundary(boundary)

OriginalAddTo(src, targetColumnIndex) ==
  /\ ~copy.made
  /\ add_to(src, targetColumnIndex)

CopyConstruct ==
  /\ ~copy.made
  /\ fault = "none"
  /\ copy' = [made |-> TRUE, m |-> copy_constructor(opt, Matrix), fault |-> "none"]
  /\ copyLast' = CopyCall("copy_constructor")
  /\ UNCHANGED OutsideCopy

CopyAssign ==
  /\ ~copy.made
  /\ fault = "none"
  /\ LET r == operator_assign(opt, Matrix)
     IN IF r.nullDeref
        THEN \E f \in NullDerefOutcomes : copy' = [made |-> TRUE, m |-> r.m, fault |-> f]
        ELSE copy' = [made |-> TRUE, m |-> r.m, fault |-> "none"]
  /\ copyLast' = CopyCall("operator=")
  /\ UNCHANGED OutsideCopy

CopyInsertBoundary(boundary) ==
  /\ copy.made
  /\ copy.fault = "none"
  /\ copy.m.nextColumnIndex_ < MaxColumns
  /\ copy' = [copy EXCEPT !.m = insert_boundary_op(opt, copy.m, boundary)]
  /\ copyLast' = CopyCall("insert_boundary")
  /\ UNCHANGED OutsideCopy

CopyAddTo(src, targetColumnIndex) ==
  /\ copy.made
  /\ copy.fault = "none"
  /\ LET r == add_to_op(opt, copy.m, src, targetColumnIndex)
     IN IF r.nullDeref
        THEN \E f \in NullDerefOutcomes : copy' = [copy EXCEPT !.fault = f]
        ELSE copy' = [copy EXCEPT !.m = r.m]
  /\ copyLast' = CopyCall("add_to")
  /\ UNCHANGED OutsideCopy

CopyInit ==
  /\ opt \in Options
  /\ \E numberOfColumns \in {0, MaxColumns} : MatrixInit(numberOfColumns)
  /\ NoColumns
  /\ NoUsets
  /\ NoTyped
  /\ NoRu
  /\ NoCells
  /\ NoCopy
  /\ NoChains
  /\ NoTower
  /\ NoFile
  /\ NoWitnesses

CopyNext ==
  \/ \E boundary \in MatrixBoundaries(opt) : OriginalInsertBoundary(boundary)
  \/ \E src \in Sources(opt, Matrix), t \in 0 .. (nextColumnIndex_ - 1) : OriginalAddTo(src, t)
  \/ CopyConstruct
  \/ CopyAssign
  \/ \E boundary \in MatrixBoundaries(opt) : CopyInsertBoundary(boundary)
  \/ \E src \in Sources(opt, copy.m), t \in 0 .. (copy.m.nextColumnIndex_ - 1) : CopyAddTo(src, t)

CopySpec ==
  CopyInit /\ [][CopyNext]_vars

\* ------------------------------------------------ column-level runs
\* Two column objects, 1 and 2; a binary operation on target t reads source
\* s, which may be t itself.
ColCall(op, t, s, val) ==
  [op |-> op, tgt |-> t, src |-> s, val |-> val, oldTarget |-> cols[t], oldSource |-> cols[s]]

\* Injective row maps handed to reorder.
RowMaps ==
  {f \in [Rows -> Rows] : \A r1, r2 \in Rows : f[r1] = f[r2] => r1 = r2}

\* Values handed to operator*=(unsigned int v): every residue, and values
\* beyond p.
UnsignedValues(o) ==
  0 .. (o.p + 1)

ColPlusAssign(t, s) ==
  /\ cols' = [cols EXCEPT ![t] = operator_plus_assign(opt, cols[t], cols[s])]
  /\ colLast' = ColCall("operator+=", t, s, 1)
  /\ UNCHANGED OutsideColumns

ColTimesAssign(t, v) ==
  /\ cols' = [cols EXCEPT ![t] = operator_times_assign(opt, cols[t], v)]
  /\ colLast' = ColCall("operator*=", t, t, v)
  /\ UNCHANGED OutsideColumns

ColMultiplyTargetAndAdd(t, s, val) ==
  /\ cols' = [cols EXCEPT ![t] = multiply_target_and_add(opt, val, cols[t], cols[s], s = t)]
  /\ colLast' = ColCall("multiply_target_and_add", t, s, val)
  /\ UNCHANGED OutsideColumns

ColMultiplySourceAndAdd(t, s, val) ==
  /\ cols' = [cols EXCEPT ![t] = multiply_source_and_add(opt, cols[t], cols[s], val)]
  /\ colLast' = ColCall("multiply_source_and_add", t, s, val)
  /\ UNCHANGED OutsideColumns

ColClear(t) ==
  /\ cols' = [cols EXCEPT ![t] = clear(cols[t])]
  /\ colLast' = ColCall("clear", t, t, 0)
  /\ UNCHANGED OutsideColumns

ColClearRow(t, rowIndex) ==
  /\ cols' = [cols EXCEPT ![t] = clear_row(cols[t], rowIndex)]
  /\ colLast' = ColCall("clear(row)", t, t, rowIndex)
  /\ UNCHANGED OutsideColumns

\* The maps handed to reorder are injective on the rows the column stores.
InjectiveOnStoredRows(valueMap, column_) ==
  \A i, j \in 1 .. Len(column_) :
    valueMap[column_[i].row] = valueMap[column_[j].row] => i = j

ColReorder(t, valueMap) ==
  /\ InjectiveOnStoredRows(valueMap, cols[t])
  /\ cols' = [cols EXCEPT ![t] = reorder(cols[t], valueMap)]
  /\ colLast' = ColCall("reorder", t, t, valueMap)
  /\ UNCHANGED OutsideColumns

ColInit ==
  /\ opt \in Options
  /\ MatrixInit(0)
  /\ \E b1 \in Boundaries(opt), b2 \in Boundaries(opt) :
       cols = [k \in 1 .. 2 |-> Naive_vector_column(opt, IF k = 1 THEN b1 ELSE b2)]
  /\ colLast = NoColCall
  /\ NoUsets
  /\ NoTyped
  /\ NoRu
  /\ NoCells
  /\ NoCopy
  /\ NoChains
  /\ NoTower
  /\ NoFile
  /\ NoWitnesses

ColNext ==
  \/ \E t \in 1 .. 2, s \in 1 .. 2 : ColPlusAssign(t, s)
  \/ \E t \in 1 .. 2, v \in UnsignedValues(opt) : ColTimesAssign(t, v)
  \/ \E t \in 1 .. 2, s \in 1 .. 2, val \in Coefficients(opt) : ColMultiplyTargetAndAdd(t, s, val)
  \/ \E t \in 1 .. 2, s \in 1 .. 2, val \in Coefficients(opt) : ColMultiplySourceAndAdd(t, s, val)
  \/ \E t \in 1 .. 2 : ColClear(t)
  \/ \E t \in 1 .. 2, rowIndex \in Rows : ColClearRow(t, rowIndex)
  \/ \E t \in 1 .. 2, valueMap \in [Rows -> Rows] : ColReorder(t, valueMap)

ColSpec ==
  ColInit /\ [][ColNext]_vars

\* ======================================== Z2_unordered_set_column
\* Row values a Z2_unordered_set_column may hold are 0 .. NumValues-1.
NumValues == 3

Values == 0 .. (NumValues - 1)

\* std::max_element over a non-empty set of values.
max_element(S) ==
  CHOOSE v \in S : \A w \in S : w <= v

\* Z2_unordered_set_column(boundary).
Z2_unordered_set_column(boundary) ==
  [dim_ |-> IF Cardinality(boundary) = 0 THEN 0 ELSE Cardinality(boundary) - 1,
   column_ |-> boundary,
   pivotChanged_ |-> FALSE,
   pivot_ |-> IF Cardinality(boundary) = 0 THEN -1 ELSE max_element(boundary)]

\* get_pivot(): the cached pivot, recomputed first when the dirty flag is
\* set.  Returns the value and the column as the call leaves it.
uset_get_pivot(c) ==
  IF c.pivotChanged_
  THEN LET pv == IF Cardinality(c.column_) = 0 THEN -1 ELSE max_element(c.column_)
       IN [value |-> pv, column |-> [c EXCEPT !.pivot_ = pv, !.pivotChanged_ = FALSE]]
  ELSE [value |-> c.pivot_, column |-> c]

\* clear().
uset_clear(c) ==
  [c EXCEPT !.column_ = {}, !.pivot_ = -1, !.pivotChanged_ = FALSE]

\* clear(value).
uset_clear_value(c, value) ==
  [c EXCEPT !.column_ = c.column_ \ {value},
            !.pivotChanged_ = IF value = c.pivot_ THEN TRUE ELSE c.pivotChanged_]

\* reorder(valueMap).
uset_reorder(c, valueMap) ==
  [c EXCEPT !.column_ = {valueMap[v] : v \in c.column_},
            !.pivotChanged_ = TRUE]

\* One iteration of the loop of add, for the value v of the source.
uset_add_value(c, v) ==
  IF v \in c.column_
  THEN [c EXCEPT !.column_ = c.column_ \ {v},
                 !.pivotChanged_ = IF v = c.pivot_ THEN TRUE ELSE c.pivotChanged_]
  ELSE IF v > c.pivot_
       THEN [c EXCEPT !.column_ = c.column_ \cup {v}, !.pivot_ = v, !.pivotChanged_ = FALSE]
       ELSE [c EXCEPT !.column_ = c.column_ \cup {v}]

\* The loop of add over the values of the source, taken in the order given.
RECURSIVE uset_add_in_order(_, _)
uset_add_in_order(c, order) ==
  IF order = <<>> THEN c
  ELSE uset_add_in_order(uset_add_value(c, Head(order)), Tail(order))

\* The orders in which an unordered_set holding S may be iterated.
IterationOrders(S) ==
  {order \in [1 .. Cardinality(S) -> S] :
     \A i, j \in 1 .. Cardinality(S) : order[i] = order[j] => i = j}

\* Injective maps handed to reorder.
ValueMaps ==
  {f \in [Values -> Values] : \A v, w \in Values : f[v] = f[w] => v = w}

\* add(column), for another column object: the iteration order of the
\* source's unordered_set is not specified.
UsetAdd(t, s) ==
  /\ t # s
  /\ \E order \in IterationOrders(usets[s].column_) :
       usets' = [usets EXCEPT ![t] = uset_add_in_order(usets[t], order)]
  /\ UNCHANGED OutsideUsets

UsetClear(t) ==
  /\ usets' = [usets EXCEPT ![t] = uset_clear(usets[t])]
  /\ UNCHANGED OutsideUsets

UsetClearValue(t, value) ==
  /\ usets' = [usets EXCEPT ![t] = uset_clear_value(usets[t], value)]
  /\ UNCHANGED OutsideUsets

UsetReorder(t, valueMap) ==
  /\ usets' = [usets EXCEPT ![t] = uset_reorder(usets[t], valueMap)]
  /\ UNCHANGED OutsideUsets

UsetGetPivot(t) ==
  /\ usets' = [usets EXCEPT ![t] = uset_get_pivot(usets[t]).column]
  /\ UNCHANGED OutsideUsets

UsetInit ==
  /\ opt = [is_z2 |-> TRUE, p |-> 2]
  /\ MatrixInit(0)
  /\ NoColumns
  /\ \E b1 \in SUBSET Values, b2 \in SUBSET Values :
       usets = [k \in 1 .. 2 |-> Z2_unordered_set_column(IF k = 1 THEN b1 ELSE b2)]
  /\ NoTyped
  /\ NoRu
  /\ NoCells
  /\ NoCopy
  /\ NoChains
  /\ NoTower
  /\ NoFile
  /\ NoWitnesses

UsetNext ==
  \/ \E t \in 1 .. 2, s \in 1 .. 2 : UsetAdd(t, s)
  \/ \E t \in 1 .. 2 : UsetClear(t)
  \/ \E t \in 1 .. 2, value \in Values : UsetClearValue(t, value)
  \/ \E t \in 1 .. 2, valueMap \in ValueMaps : UsetReorder(t, valueMap)
  \/ \E t \in 1 .. 2 : UsetGetPivot(t)

UsetSpec ==
  UsetInit /\ [][UsetNext]_vars

\* ================================= boundary and chain typed columns
\* Naive_vector_column with its Chain_column_option (stored pivot) and
\* Column_dimension_option (dimension).  A column is a chain column when
\* is_of_boundary_type is FALSE.

\* Chain_column_option::get_pivot for a chain column, the row of the last
\* cell for a boundary column.
typed_get_pivot(boundaryType, c) ==
  IF boundaryType THEN get_pivot(c.column_) ELSE c.pivot_

\* Field_element_type(): the value-initialised field element.
Field_element_type == 0

\* get_pivot_value().
get_pivot_value(o, boundaryType, c) ==
  IF o.is_z2 THEN 1
  ELSE IF boundaryType
       THEN (IF c.column_ = <<>> THEN Field_element_type ELSE c.column_[Len(c.column_)].el)
  ELSE IF c.pivot_ = -1 THEN Field_element_type
  ELSE LET Hits == {i \in 1 .. Len(c.column_) : c.column_[i].row = c.pivot_}
       IN IF Hits = {} THEN Field_element_type
          ELSE c.column_[CHOOSE i \in Hits : \A j \in Hits : i <= j].el

\* pivotIsZeroed as the merge loops of _add ("add"),
\* _multiply_target_and_add ("front") and _multiply_source_and_add ("back")
\* compute it for a chain column: set when the cell of the stored pivot row
\* is deleted because its new value is the additive identity.
RECURSIVE PivotIsZeroedLoop(_, _, _, _, _, _, _, _)
PivotIsZeroedLoop(o, mode, val, column_, column, pivot, i, j) ==
  IF i > Len(column_) \/ j > Len(column) THEN FALSE
  ELSE IF column_[i].row < column[j].row
       THEN PivotIsZeroedLoop(o, mode, val, column_, column, pivot, i + 1, j)
  ELSE IF column_[i].row > column[j].row
       THEN PivotIsZeroedLoop(o, mode, val, column_, column, pivot, i, j + 1)
  ELSE LET e == IF mode = "add" THEN add_inplace(o, column_[i].el, column[j].el)
                ELSE IF mode = "front"
                     THEN multiply_and_add_inplace_front(o, column_[i].el, val, column[j].el)
                ELSE multiply_and_add_inplace_back(o, column[j].el, val, column_[i].el)
           deleted == o.is_z2 \/ e = get_additive_identity
       IN (deleted /\ column_[i].row = pivot)
          \/ PivotIsZeroedLoop(o, mode, val, column_, column, pivot, i + 1, j + 1)

\* Value returned by _add(column) on a chain column.
_add_returns(o, column_, column, pivot) ==
  IF column = <<>> THEN FALSE
  ELSE IF column_ = <<>> THEN TRUE
  ELSE PivotIsZeroedLoop(o, "add", 1, column_, column, pivot, 1, 1)

\* Value returned by _multiply_target_and_add(val, column), val # 0, on a
\* chain column.
_multiply_target_and_add_returns(o, val, column_, column, pivot) ==
  IF column_ = <<>> THEN TRUE
  ELSE PivotIsZeroedLoop(o, "front", val, column_, column, pivot, 1, 1)

\* Value returned by _multiply_source_and_add(column, val) on a chain column.
_multiply_source_and_add_returns(o, column_, column, val, pivot) ==
  IF val = 0 \/ column = <<>> THEN FALSE
  ELSE PivotIsZeroedLoop(o, "back", val, column_, column, pivot, 1, 1)

\* Outcome of a call on a typed column: the exception thrown if any, the
\* target and the source as the call leaves them.
Returned(t, s) ==
  [thrown |-> "none", target |-> t, source |-> s]

Thrown(t, s) ==
  [thrown |-> "std::invalid_argument", target |-> t, source |-> s]

\* Faulty variant of the swap: the pivots are exchanged, the dimensions are
\* not.
SwapPivotsOnly(swapped, newColumn_, t, s) ==
  IF swapped
  THEN Returned(TypedColumn(newColumn_, s.pivot_, t.dim_), [s EXCEPT !.pivot_ = t.pivot_])
  ELSE Returned([t EXCEPT !.column_ = newColumn_], s)

\* chain_opt::swap_pivots(column) and dim_opt::swap_dimension(column), when
\* swapped; the target takes the cells newColumn_ in both cases.
SwapPivotsAndDimension(swapped, newColumn_, t, s) ==
  IF swapped
  THEN Returned(TypedColumn(newColumn_, s.pivot_, s.dim_), [s EXCEPT !.pivot_ = t.pivot_, !.dim_ = t.dim_])
  ELSE Returned([t EXCEPT !.column_ = newColumn_], s)

\* operator+=(Naive_vector_column& column).
operator_plus_assign_column(o, boundaryType, t, s) ==
  IF ~boundaryType
  THEN SwapPivotsAndDimension(_add_returns(o, t.column_, s.column_, t.pivot_),
                              _add(o, t.column_, s.column_), t, s)
  ELSE Returned([t EXCEPT !.column_ = _add(o, t.column_, s.column_)], s)

\* operator*=(unsigned int v).
operator_times_assign_column(o, boundaryType, t, v) ==
  LET zero == IF o.is_z2 THEN v % 2 = 0 ELSE get_value(o, v) = get_additive_identity
  IN IF zero /\ ~boundaryType THEN Thrown(t, t)
     ELSE Returned([t EXCEPT !.column_ = operator_times_assign(o, t.column_, v)], t)

\* Faulty variant of multiply_target_and_add on columns: a chain column is
\* cleared before the exception for a zero coefficient is thrown.
multiply_target_and_add_column_clearing_first(o, boundaryType, val, t, s, sameObject) ==
  IF ~boundaryType
  THEN IF val = 0 THEN Thrown([t EXCEPT !.column_ = <<>>], s)
       ELSE IF o.is_z2
            THEN SwapPivotsAndDimension(_add_returns(o, t.column_, s.column_, t.pivot_),
                                        _add(o, t.column_, s.column_), t, s)
            ELSE SwapPivotsAndDimension(
                   _multiply_target_and_add_returns(o, val, t.column_, s.column_, t.pivot_),
                   _multiply_target_and_add(o, val, t.column_, s.column_, sameObject), t, s)
  ELSE Returned([t EXCEPT !.column_ = multiply_target_and_add(o, val, t.column_, s.column_, sameObject)], s)

\* multiply_target_and_add(val, Naive_vector_column& column).
multiply_target_and_add_column(o, boundaryType, val, t, s, sameObject) ==
  IF ~boundaryType
  THEN IF o.is_z2
       THEN (IF val # 0
             THEN SwapPivotsAndDimension(_add_returns(o, t.column_, s.column_, t.pivot_),
                                         _add(o, t.column_, s.column_), t, s)
             ELSE Thrown(t, s))
       ELSE (IF val = 0 THEN Thrown(t, s)
             ELSE SwapPivotsAndDimension(
                    _multiply_target_and_add_returns(o, val, t.column_, s.column_, t.pivot_),
                    _multiply_target_and_add(o, val, t.column_, s.column_, sameObject), t, s))
  ELSE Returned([t EXCEPT !.column_ = multiply_target_and_add(o, val, t.column_, s.column_, sameObject)], s)

\* multiply_source_and_add(Naive_vector_column& column, val).
multiply_source_and_add_column(o, boundaryType, t, s, val) ==
  IF ~boundaryType
  THEN IF o.is_z2
       THEN (IF val # 0
             THEN SwapPivotsAndDimension(_add_returns(o, t.column_, s.column_, t.pivot_),
                                         _add(o, t.column_, s.column_), t, s)
             ELSE Returned(t, s))
       ELSE SwapPivotsAndDimension(
              _multiply_source_and_add_returns(o, t.column_, s.column_, val, t.pivot_),
              _multiply_source_and_add(o, t.column_, s.column_, val), t, s)
  ELSE Returned([t EXCEPT !.column_ = multiply_source_and_add(o, t.column_, s.column_, val)], s)

TypedCall(op, t, s, val, r) ==
  [op |-> op, tgt |-> t, src |-> s, val |-> val, thrown |-> r.thrown,
   oldTarget |-> typed[t], oldSource |-> typed[s]]

\* The call's outcome written back: the source first, then the target (one
\* object when t = s).
TypedFinish(op, t, s, val, r) ==
  /\ typed' = [typed EXCEPT ![s] = r.source, ![t] = r.target]
  /\ typedLast' = TypedCall(op, t, s, val, r)
  /\ UNCHANGED <<is_of_boundary_type, OutsideTyped>>

TypedPlusAssign(t, s) ==
  TypedFinish("operator+=", t, s, 1,
              operator_plus_assign_column(opt, is_of_boundary_type, typed[t], typed[s]))

TypedTimesAssign(t, v) ==
  TypedFinish("operator*=", t, t, v,
              operator_times_assign_column(opt, is_of_boundary_type, typed[t], v))

TypedMultiplyTargetAndAdd(t, s, val) ==
  TypedFinish("multiply_target_and_add", t, s, val,
              multiply_target_and_add_column(opt, is_of_boundary_type, val, typed[t], typed[s], s = t))

TypedMultiplySourceAndAdd(t, s, val) ==
  TypedFinish("multiply_source_and_add", t, s, val,
              multiply_source_and_add_column(opt, is_of_boundary_type, typed[t], typed[s], val))

\* Naive_vector_column(nonZeroRowIndices, colSettings) of a boundary column,
\* Naive_vector_column(nonZeroChainRowIndices, dimension, colSettings) of a
\* chain column: the stored pivot is the row of the last entry.
Naive_vector_column_typed(o, boundaryType, nonZeroRowIndices, dimension) ==
  TypedColumn(Naive_vector_column(o, nonZeroRowIndices),
              IF nonZeroRowIndices = <<>> THEN -1
              ELSE nonZeroRowIndices[Len(nonZeroRowIndices)].row,
              IF boundaryType
              THEN (IF Len(nonZeroRowIndices) = 0 THEN 0 ELSE Len(nonZeroRowIndices) - 1)
              ELSE dimension)

\* Boundary columns are built from any boundary; chain columns are base
\* elements, built from non-empty chains, here of dimensions 0 and 1.
TypedInit ==
  /\ opt \in Options
  /\ MatrixInit(0)
  /\ NoColumns
  /\ NoUsets
  /\ is_of_boundary_type \in BOOLEAN
  /\ \E b1 \in Boundaries(opt), b2 \in Boundaries(opt) :
       /\ is_of_boundary_type \/ (b1 # <<>> /\ b2 # <<>>)
       /\ typed = [k \in 1 .. 2 |->
                     Naive_vector_column_typed(opt, is_of_boundary_type,
                                               IF k = 1 THEN b1 ELSE b2, k - 1)]
  /\ typedLast = NoTypedCall
  /\ NoRu
  /\ NoCells
  /\ NoCopy
  /\ NoChains
  /\ NoTower
  /\ NoFile
  /\ NoWitnesses

TypedNext ==
  \/ \E t \in 1 .. 2, s \in 1 .. 2 : TypedPlusAssign(t, s)
  \/ \E t \in 1 .. 2, v \in UnsignedValues(opt) : TypedTimesAssign(t, v)
  \/ \E t \in 1 .. 2, s \in 1 .. 2, val \in Coefficients(opt) : TypedMultiplyTargetAndAdd(t, s, val)
  \/ \E t \in 1 .. 2, s \in 1 .. 2, val \in Coefficients(opt) : TypedMultiplySourceAndAdd(t, s, val)

TypedSpec ==
  TypedInit /\ [][TypedNext]_vars

\* ------------------------------------------- cells, factory and rows
\* What a column method does to the cells, in the order of the code: a
\* sequence of events, each on the cell of one row of the column.
\*   "construct"      cellPool_->construct(columnIndex_, row) or
\*                    construct(row), and ra_opt::insert_cell with row access
\*                    (_insert_cell, _update_cell)
\*   "_delete_cell"   ra_opt::unlink with row access, cellPool_->destroy
\*   "destroy"        cellPool_->destroy alone
\*   "query"          cellPool_->construct(row) of is_non_zero
\*   "unlink"         ra_opt::unlink
\*   "set_row_index"  cell->set_row_index(to)
\*   "insert_cell"    ra_opt::insert_cell(row, cell)
CellEvent(ev, rowIndex, to) ==
  [ev |-> ev, row |-> rowIndex, to |-> to]

\* Number of cells the factory holds.
RECURSIVE SumOver(_, _)
SumOver(f, S) ==
  IF S = {} THEN 0
  ELSE LET x == CHOOSE y \in S : TRUE IN f[x] + SumOver(f, S \ {x})

PoolSize ==
  SumOver(cellPool_, PoolCells)

\* The column index a column hands to construct.
CellTag(hra, k) ==
  IF hra THEN k ELSE -1

\* Effect of one event of column k on the factory and the row containers.
ApplyCellEvent(hra, k, e, st) ==
  LET cell == PoolCell(CellTag(hra, k), e.row)
  IN IF e.ev = "construct"
     THEN [pool |-> [st.pool EXCEPT ![cell] = @ + 1],
           rows |-> IF hra THEN [st.rows EXCEPT ![e.row][k] = @ + 1] ELSE st.rows]
     ELSE IF e.ev = "_delete_cell"
     THEN [pool |-> [st.pool EXCEPT ![cell] = @ - 1],
           rows |-> IF hra THEN [st.rows EXCEPT ![e.row][k] = @ - 1] ELSE st.rows]
     ELSE IF e.ev = "destroy"
     THEN [pool |-> [st.pool EXCEPT ![cell] = @ - 1], rows |-> st.rows]
     ELSE IF e.ev = "query"
     THEN [pool |-> [st.pool EXCEPT ![PoolCell(-1, e.row)] = @ + 1], rows |-> st.rows]
     ELSE IF e.ev = "unlink"
     THEN [pool |-> st.pool,
           rows |-> IF hra THEN [st.rows EXCEPT ![e.row][k] = @ - 1] ELSE st.rows]
     ELSE IF e.ev = "set_row_index"
     THEN [pool |-> [[st.pool EXCEPT ![cell] = @ - 1]
                       EXCEPT ![PoolCell(CellTag(hra, k), e.to)] = @ + 1],
           rows |-> st.rows]
     ELSE [pool |-> st.pool,
           rows |-> IF hra THEN [st.rows EXCEPT ![e.row][k] = @ + 1] ELSE st.rows]

RECURSIVE ApplyCellEvents(_, _, _, _)
ApplyCellEvents(hra, k, events, st) ==
  IF events = <<>> THEN st
  ELSE ApplyCellEvents(hra, k, Tail(events), ApplyCellEvent(hra, k, Head(events), st))

\* _update_cell at positions 0, 1, ... for every cell of a range.
UpdateCellEvents(column) ==
  [i \in 1 .. Len(column) |-> CellEvent("construct", column[i].row, 0)]

\* The merge loops of _add ("add"), _multiply_target_and_add ("front") and
\* _multiply_source_and_add ("back"): a source-only row is inserted, a row
\* of both whose value cancels is deleted, every other target cell is kept.
RECURSIVE CellEventsLoop(_, _, _, _, _, _, _)
CellEventsLoop(o, mode, val, column_, column, i, j) ==
  IF i > Len(column_) \/ j > Len(column)
  THEN [n \in 1 .. (Len(column) - j + 1) |-> CellEvent("construct", column[j + n - 1].row, 0)]
  ELSE IF column_[i].row < column[j].row
       THEN CellEventsLoop(o, mode, val, column_, column, i + 1, j)
  ELSE IF column_[i].row > column[j].row
       THEN <<CellEvent("construct", column[j].row, 0)>>
            \o CellEventsLoop(o, mode, val, column_, column, i, j + 1)
  ELSE LET e == IF mode = "add" THEN add_inplace(o, column_[i].el, column[j].el)
                ELSE IF mode = "front"
                     THEN multiply_and_add_inplace_front(o, column_[i].el, val, column[j].el)
                ELSE multiply_and_add_inplace_back(o, column[j].el, val, column_[i].el)
           deleted == o.is_z2 \/ e = get_additive_identity
       IN (IF deleted THEN <<CellEvent("_delete_cell", column_[i].row, 0)>> ELSE <<>>)
          \o CellEventsLoop(o, mode, val, column_, column, i + 1, j + 1)

\* Faulty variant of clear(): the cells are destroyed and stay linked.
clear_events_without_unlink(column_) ==
  [i \in 1 .. Len(column_) |-> CellEvent("destroy", column_[i].row, 0)]

\* clear(): unlink and destroy of every cell.
clear_events(column_) ==
  [i \in 1 .. Len(column_) |-> CellEvent("_delete_cell", column_[i].row, 0)]

\* clear(rowIndex): _delete_cell of the first cell of that row.
clear_row_events(column_, rowIndex) ==
  IF \E i \in 1 .. Len(column_) : column_[i].row = rowIndex
  THEN <<CellEvent("_delete_cell", rowIndex, 0)>>
  ELSE <<>>

\* reorder(valueMap): every cell is unlinked and gets its new row index; it
\* is linked again at once (intrusive rows) or after all cells have been
\* unlinked (row sets). Both orders are the same sequence of effects on the
\* containers as counted here; the first one is written.
reorder_events(column_, valueMap) ==
  IF column_ = <<>> THEN <<>>
  ELSE [n \in 1 .. (3 * Len(column_)) |->
          LET i == ((n - 1) \div 3) + 1
          IN IF n % 3 = 1 THEN CellEvent("unlink", column_[i].row, 0)
             ELSE IF n % 3 = 2 THEN CellEvent("set_row_index", column_[i].row, valueMap[column_[i].row])
             ELSE CellEvent("insert_cell", valueMap[column_[i].row], 0)]

_add_events(o, column_, column) ==
  IF column = <<>> THEN <<>>
  ELSE IF column_ = <<>> THEN UpdateCellEvents(column)
  ELSE CellEventsLoop(o, "add", 1, column_, column, 1, 1)

_multiply_target_and_add_events(o, val, column_, column) ==
  LET cleared == IF val = 0 THEN clear_events(column_) ELSE <<>>
      tgt == IF val = 0 THEN clear(column_) ELSE column_
  IN cleared \o (IF tgt = <<>> THEN UpdateCellEvents(column)
                 ELSE CellEventsLoop(o, "front", val, tgt, column, 1, 1))

_multiply_source_and_add_events(o, column_, column, val) ==
  IF val = 0 \/ column = <<>> THEN <<>>
  ELSE CellEventsLoop(o, "back", val, column_, column, 1, 1)

operator_times_assign_events(o, column_, v) ==
  IF o.is_z2
  THEN (IF v % 2 = 0 THEN clear_events(column_) ELSE <<>>)
  ELSE IF get_value(o, v) = get_additive_identity THEN clear_events(column_) ELSE <<>>

multiply_target_and_add_events(o, val, column_, column) ==
  IF o.is_z2
  THEN (IF val # 0 THEN _add_events(o, column_, column)
        ELSE clear_events(column_) \o _add_events(o, clear(column_), column))
  ELSE _multiply_target_and_add_events(o, val, column_, column)

multiply_source_and_add_events(o, column_, column, val) ==
  IF o.is_z2
  THEN (IF val # 0 THEN _add_events(o, column_, column) ELSE <<>>)
  ELSE _multiply_source_and_add_events(o, column_, column, val)

\* operator=(other), other another object: while the column is longer than
\* other its last cell is popped, and destroyed only if the pointer is null,
\* which a stored cell never is; then every remaining cell is destroyed and
\* replaced by a copy of the cell of other at its position.
operator_assign_events(column_, other) ==
  LET kept == IF Len(column_) > Len(other) THEN Len(other) ELSE Len(column_)
  IN [n \in 1 .. (kept + Len(other)) |->
        IF n <= 2 * kept
        THEN (IF n % 2 = 1 THEN CellEvent("destroy", column_[(n + 1) \div 2].row, 0)
              ELSE CellEvent("construct", other[n \div 2].row, 0))
        ELSE CellEvent("construct", other[n - kept].row, 0)]

\* is_non_zero(rowIndex): binary search against a cell constructed for the
\* comparison.
is_non_zero_events(rowIndex) ==
  <<CellEvent("query", rowIndex, 0)>>

\* ~Naive_vector_column(): _delete_cell of every cell.
destructor_events(column_) ==
  [i \in 1 .. Len(column_) |-> CellEvent("_delete_cell", column_[i].row, 0)]

\* Number of cells the live columns store.
StoredSize ==
  SumOver([k \in 1 .. 2 |-> IF cellColumns[k].live THEN Len(cellColumns[k].column_) ELSE 0],
          1 .. 2)

\* The runs explored hold at most MaxLeaked cells in the factory beyond those
\* the columns store.
MaxLeaked == 1

\* A call op on column t that leaves it with newColumn_ after events.
CellFinish(op, t, live, newColumn_, events) ==
  LET st == ApplyCellEvents(has_row_access, t, events,
                            [pool |-> cellPool_, rows |-> rowContainer])
  IN /\ cellColumns' = [cellColumns EXCEPT ![t] = [live |-> live, column_ |-> newColumn_]]
     /\ cellPool_' = st.pool
     /\ rowContainer' = st.rows
     /\ cellLast' = [op |-> op]
     /\ UNCHANGED <<opt, has_row_access, OutsideCells>>

Live(t) ==
  cellColumns[t].live

CellConstruct(t, boundary) ==
  /\ ~Live(t)
  /\ CellFinish("Naive_vector_column", t, TRUE, Naive_vector_column(opt, boundary),
                UpdateCellEvents(boundary))

CellDestruct(t) ==
  /\ Live(t)
  /\ CellFinish("~Naive_vector_column", t, FALSE, <<>>, destructor_events(cellColumns[t].column_))

CellPlusAssign(t, s) ==
  /\ Live(t) /\ Live(s) /\ t # s
  /\ CellFinish("operator+=", t, TRUE,
                operator_plus_assign(opt, cellColumns[t].column_, cellColumns[s].column_),
                _add_events(opt, cellColumns[t].column_, cellColumns[s].column_))

CellTimesAssign(t, v) ==
  /\ Live(t)
  /\ CellFinish("operator*=", t, TRUE,
                operator_times_assign(opt, cellColumns[t].column_, v),
                operator_times_assign_events(opt, cellColumns[t].column_, v))

CellMultiplyTargetAndAdd(t, s, val) ==
  /\ Live(t) /\ Live(s) /\ t # s
  /\ CellFinish("multiply_target_and_add", t, TRUE,
                multiply_target_and_add(opt, val, cellColumns[t].column_, cellColumns[s].column_, FALSE),
                multiply_target_and_add_events(opt, val, cellColumns[t].column_, cellColumns[s].column_))

CellMultiplySourceAndAdd(t, s, val) ==
  /\ Live(t) /\ Live(s) /\ t # s
  /\ CellFinish("multiply_source_and_add", t, TRUE,
                multiply_source_and_add(opt, cellColumns[t].column_, cellColumns[s].column_, val),
                multiply_source_and_add_events(opt, cellColumns[t].column_, cellColumns[s].column_, val))

CellClear(t) ==
  /\ Live(t)
  /\ CellFinish("clear", t, TRUE, clear(cellColumns[t].column_), clear_events(cellColumns[t].column_))

CellClearRow(t, rowIndex) ==
  /\ Live(t)
  /\ CellFinish("clear(row)", t, TRUE, clear_row(cellColumns[t].column_, rowIndex),
                clear_row_events(cellColumns[t].column_, rowIndex))

CellReorder(t, valueMap) ==
  /\ Live(t)
  /\ CellFinish("reorder", t, TRUE, reorder(cellColumns[t].column_, valueMap),
                reorder_events(cellColumns[t].column_, valueMap))

CellIsNonZero(t, rowIndex) ==
  /\ Live(t)
  /\ PoolSize - StoredSize < MaxLeaked
  /\ CellFinish("is_non_zero", t, TRUE, cellColumns[t].column_, is_non_zero_events(rowIndex))

\* operator= is disabled with row access (static_assert).
CellAssign(t, s) ==
  /\ ~has_row_access
  /\ Live(t) /\ Live(s) /\ t # s
  /\ PoolSize - StoredSize + Len(cellColumns[t].column_) - Len(cellColumns[s].column_) <= MaxLeaked
  /\ CellFinish("operator=", t, TRUE, cellColumns[s].column_,
                operator_assign_events(cellColumns[t].column_, cellColumns[s].column_))

CellInit ==
  /\ opt \in Options
  /\ MatrixInit(0)
  /\ NoColumns
  /\ NoUsets
  /\ NoTyped
  /\ NoRu
  /\ has_row_access \in BOOLEAN
  /\ cellColumns = [k \in 1 .. 2 |-> [live |-> FALSE, column_ |-> <<>>]]
  /\ cellPool_ = EmptyPool
  /\ rowContainer = EmptyRows
  /\ cellLast = NoCellCall
  /\ NoCopy
  /\ NoChains
  /\ NoTower
  /\ NoFile
  /\ NoWitnesses

CellNext ==
  \/ \E t \in 1 .. 2, boundary \in Boundaries(opt) : CellConstruct(t, boundary)
  \/ \E t \in 1 .. 2 : CellDestruct(t)
  \/ \E t \in 1 .. 2, s \in 1 .. 2 : CellPlusAssign(t, s)
  \/ \E t \in 1 .. 2, v \in UnsignedValues(opt) : CellTimesAssign(t, v)
  \/ \E t \in 1 .. 2, s \in 1 .. 2, val \in Coefficients(opt) : CellMultiplyTargetAndAdd(t, s, val)
  \/ \E t \in 1 .. 2, s \in 1 .. 2, val \in Coefficients(opt) : CellMultiplySourceAndAdd(t, s, val)
  \/ \E t \in 1 .. 2 : CellClear(t)
  \/ \E t \in 1 .. 2, rowIndex \in Rows : CellClearRow(t, rowIndex)
  \/ \E t \in 1 .. 2, valueMap \in RowMaps : CellReorder(t, valueMap)
  \/ \E t \in 1 .. 2, rowIndex \in Rows : CellIsNonZero(t, rowIndex)
  \/ \E t \in 1 .. 2, s \in 1 .. 2 : CellAssign(t, s)

CellSpec ==
  CellInit /\ [][CellNext]_vars

\* ------------------------------------- reduced boundary matrix (R)
\* The matrix class is declared only (RU_matrix_with_row_acces_with_removals);
\* its standard reduction is taken from the description of the boundary
\* matrix, run on the columns modelled above. R is a sequence: column j of the
\* matrix is R[j + 1].
MaxRColumns == 3

\* Field_operators::get_inverse: the multiplicative inverse of a non-zero
\* element.
get_inverse(o, e) ==
  CHOOSE y \in 1 .. (o.p - 1) : (e * y) % o.p = 1

PivotValue(o, column_) ==
  get_pivot_value(o, TRUE, TypedColumn(column_, get_pivot(column_), 0))

\* c = - R[j].pivot_value / R[k].pivot_value (Z/2: c = 1).
ReductionCoefficient(o, columnJ, columnK) ==
  IF o.is_z2 THEN 1
  ELSE ((o.p - PivotValue(o, columnJ)) * get_inverse(o, PivotValue(o, columnK))) % o.p

\* Faulty variant of the reduction loop: one addition at most.
RECURSIVE reduce_once(_, _, _, _, _)
reduce_once(o, columns, table, columnJ, n) ==
  IF columnJ # <<>> /\ table[get_pivot(columnJ)] # -1 /\ n = 0
  THEN LET columnK == columns[table[get_pivot(columnJ)] + 1]
       IN reduce_once(o, columns, table,
                      multiply_source_and_add(o, columnJ, columnK,
                                              ReductionCoefficient(o, columnJ, columnK)),
                      n + 1)
  ELSE [column |-> columnJ, reductions |-> n]

\* while j is non-empty and pivot_table contains j.pivot:
\*   k <- pivot_table[j.pivot]; R[j] <- R[j] + c.R[k]
\* n counts the additions made.
RECURSIVE reduce(_, _, _, _, _)
reduce(o, columns, table, columnJ, n) ==
  IF columnJ # <<>> /\ table[get_pivot(columnJ)] # -1
  THEN LET columnK == columns[table[get_pivot(columnJ)] + 1]
       IN reduce(o, columns, table,
                 multiply_source_and_add(o, columnJ, columnK,
                                         ReductionCoefficient(o, columnJ, columnK)),
                 n + 1)
  ELSE [column |-> columnJ, reductions |-> n]

\* Insertion of column j = Len(R): reduction, then
\* if j is non-empty: pivot_table[j.pivot] <- j.
RInsertBoundary(boundary) ==
  /\ Len(R) < MaxRColumns
  /\ LET r == reduce(opt, R, pivot_table, Naive_vector_column(opt, boundary), 0)
     IN /\ R' = Append(R, r.column)
        /\ pivot_table' = IF r.column # <<>>
                          THEN [pivot_table EXCEPT ![get_pivot(r.column)] = Len(R)]
                          ELSE pivot_table
        /\ ruLast' = [boundary |-> boundary, reductions |-> r.reductions]
  /\ UNCHANGED <<opt, OutsideRu>>

RInit ==
  /\ opt \in Options
  /\ MatrixInit(0)
  /\ NoColumns
  /\ NoUsets
  /\ NoTyped
  /\ NoRu
  /\ NoCells
  /\ NoCopy
  /\ NoChains
  /\ NoTower
  /\ NoFile
  /\ NoWitnesses

RNext ==
  \E boundary \in Boundaries(opt) : RInsertBoundary(boundary)

RSpec ==
  RInit /\ [][RNext]_vars

\* ===================================================== reference algebra
\* Dense vectors over the rows, and the pointwise field computation the
\* operations are compared against.
Dense(column_) ==
  get_content(column_, NumRows)

\* c * A + d * B, entry by entry, in Z/p.
FieldCombination(o, c, A, d, B) ==
  [r \in DOMAIN A |-> (c * A[r] + d * B[r]) % o.p]

\* The column that stores exactly the non-zero entries of a dense vector, by
\* increasing row.
RECURSIVE SparseFrom(_, _)
SparseFrom(d, r) ==
  IF r \notin DOMAIN d THEN <<>>
  ELSE (IF d[r] # 0 THEN <<Cell(r, d[r])>> ELSE <<>>) \o SparseFrom(d, r + 1)

Sparse(d) ==
  SparseFrom(d, 0)

\* c * a + d * b as a column.
Combination(o, c, a, d, b) ==
  Sparse(FieldCombination(o, c, Dense(a), d, Dense(b)))

ColumnIndices ==
  0 .. (nextColumnIndex_ - 1)

SameClass(i, j) ==
  find_set(columnClasses_, i) = find_set(columnClasses_, j)

AdditionOps ==
  {"add_to", "multiply_target_and_add_to", "multiply_source_and_add_to"}

\* ================================================== Vector_chain_column
\* Partial maps from the rows to the two column indices: the dictionaries.
Dictionaries ==
  UNION {[K -> 0 .. 1] : K \in SUBSET Rows}

\* Vector_chain_column(chain, dimension, pivotToColumnIndex).
Vector_chain_column(o, chain) ==
  [column_ |-> Naive_vector_column(o, chain),
   pivot_ |-> IF chain = <<>> THEN -1 ELSE chain[Len(chain)].row]

\* Base::operator+=(column) of Vector_column: the sum of the two columns in
\* the field, stored by increasing row without zero entries.
Vector_column_plus_assign(o, column_, column) ==
  SparseFrom(FieldCombination(o, 1, Dense(column_), 1, Dense(column)), 0)

\* Result of operator+= : the dictionary, the target, the source, whether the
\* pivots were swapped and whether std::out_of_range left the method.
ChainResult(dict, t, s, swapped, thrown) ==
  [dict |-> dict, t |-> t, s |-> s, swapped |-> swapped, thrown |-> thrown]

\* Faulty variant of operator+=: the pivots are swapped, the dictionary
\* entries are not.
operator_plus_assign_chain_keeping_dictionary(o, dict, t, s) ==
  LET t1 == [t EXCEPT !.column_ = Vector_column_plus_assign(o, t.column_, s.column_)]
  IN IF is_non_zero(t1.column_, t1.pivot_) THEN ChainResult(dict, t1, s, FALSE, FALSE)
     ELSE ChainResult(dict, [t1 EXCEPT !.pivot_ = s.pivot_], [s EXCEPT !.pivot_ = t.pivot_], TRUE, FALSE)

\* Vector_chain_column::operator+=(column), column another object.
operator_plus_assign_chain(o, dict, t, s) ==
  LET t1 == [t EXCEPT !.column_ = Vector_column_plus_assign(o, t.column_, s.column_)]
  IN IF is_non_zero(t1.column_, t1.pivot_) THEN ChainResult(dict, t1, s, FALSE, FALSE)
     ELSE IF t.pivot_ \notin DOMAIN dict \/ s.pivot_ \notin DOMAIN dict
          THEN ChainResult(dict, t1, s, FALSE, TRUE)
          ELSE ChainResult([dict EXCEPT ![t.pivot_] = dict[s.pivot_], ![s.pivot_] = dict[t.pivot_]],
                           [t1 EXCEPT !.pivot_ = s.pivot_], [s EXCEPT !.pivot_ = t.pivot_],
                           TRUE, FALSE)

\* operator+=(column) when column is the object itself: both swaps exchange
\* an object with itself.
operator_plus_assign_chain_self(o, dict, t) ==
  LET t1 == [t EXCEPT !.column_ = Vector_column_plus_assign(o, t.column_, t.column_)]
  IN IF is_non_zero(t1.column_, t1.pivot_) THEN ChainResult(dict, t1, t1, FALSE, FALSE)
     ELSE IF t.pivot_ \notin DOMAIN dict
          THEN ChainResult(dict, t1, t1, FALSE, TRUE)
          ELSE ChainResult(dict, t1, t1, TRUE, FALSE)

\* The dictionary sends the stored pivot of column k to k.
DictionaryAgrees(dict, columns, k) ==
  /\ columns[k].pivot_ \in DOMAIN dict
  /\ dict[columns[k].pivot_] = k

\* No two keys of the dictionary name the same column.
IsPartialInjection(dict) ==
  \A a, b \in DOMAIN dict : dict[a] = dict[b] => a = b

ChainPlusAssign(t, s) ==
  LET r == IF t = s THEN operator_plus_assign_chain_self(opt, pivotToColumnIndex_, chains[t])
           ELSE operator_plus_assign_chain(opt, pivotToColumnIndex_, chains[t], chains[s])
  IN /\ chains' = [k \in 0 .. 1 |-> IF k = t THEN r.t ELSE r.s]
     /\ pivotToColumnIndex_' = r.dict
     /\ chainLast' = [op |-> "operator+=", tgt |-> t, src |-> s,
                      agreed |-> DictionaryAgrees(pivotToColumnIndex_, chains, t)
                                   /\ DictionaryAgrees(pivotToColumnIndex_, chains, s),
                      injective |-> IsPartialInjection(pivotToColumnIndex_),
                      swapped |-> r.swapped, thrown |-> r.thrown]
     /\ UNCHANGED OutsideChain

ChainInit ==
  /\ opt \in Options
  /\ MatrixInit(0)
  /\ NoColumns
  /\ NoUsets
  /\ NoTyped
  /\ NoRu
  /\ NoCells
  /\ NoCopy
  /\ \E c0 \in Boundaries(opt), c1 \in Boundaries(opt) :
       chains = [k \in 0 .. 1 |-> Vector_chain_column(opt, IF k = 0 THEN c0 ELSE c1)]
  /\ pivotToColumnIndex_ \in Dictionaries
  /\ chainLast = NoChainCall
  /\ NoTower
  /\ NoFile
  /\ NoWitnesses

ChainNext ==
  \E t \in 0 .. 1, s \in 0 .. 1 : ChainPlusAssign(t, s)

ChainSpec ==
  ChainInit /\ [][ChainNext]_vars

\* ====================================================== Tower_converter
\* Vertex identifiers handed in by the caller.
Vertices == 0 .. (NumVertices - 1)

\* ComplexStructure::insert_simplex: FALSE when the simplex is already in the
\* complex; otherwise it is added and takes the next identifier.
insert_simplex(cplx, simplex) ==
  IF simplex \in cplx.simplices
  THEN [inserted |-> FALSE, cplx |-> cplx]
  ELSE [inserted |-> TRUE,
        cplx |-> [simplices |-> cplx.simplices \cup {simplex}, maxIndex |-> cplx.maxIndex + 1]]

\* ComplexStructure::get_size.
get_size(simplices) ==
  Cardinality(simplices)

\* Closed star of a vertex: the faces of the simplices that contain it.
ClosedStar(simplices, x) ==
  {sigma \in simplices : \E tau \in simplices : x \in tau /\ sigma \subseteq tau}

\* ComplexStructure::get_smallest_closed_star(tv, tu, closedStar): the
\* vertices it may return (either one when the two stars have the same size).
get_smallest_closed_star(simplices, tv, tu) ==
  {x \in {tv, tu} :
     \A y \in {tv, tu} : get_size(ClosedStar(simplices, x)) <= get_size(ClosedStar(simplices, y))}

\* ComplexStructure::remove_simplex(vdis): the vertex goes with its cofaces.
remove_simplex(simplices, dis) ==
  {sigma \in simplices : dis \notin sigma}

\* get_union(v, simplices): v is inserted into every simplex lacking it.
get_union(v, simplices) ==
  {sigma \cup {v} : sigma \in simplices}

\* Faulty variant of stream_simplex: nothing is counted without output file.
stream_simplex_counting_lines(size, stream) ==
  IF stream = NULL THEN [filtrationSize_ |-> size, outputStream_ |-> stream]
  ELSE [filtrationSize_ |-> size + 1, outputStream_ |-> stream + 1]

\* stream_simplex(simplex, timestamp): counts the simplex, then writes one
\* line if there is an output file.
stream_simplex(size, stream) ==
  IF stream = NULL THEN [filtrationSize_ |-> size + 1, outputStream_ |-> stream]
  ELSE [filtrationSize_ |-> size + 1, outputStream_ |-> stream + 1]

\* stream_simplex called n times.
RECURSIVE StreamSimplices(_, _, _)
StreamSimplices(size, stream, n) ==
  IF n = 0 THEN [filtrationSize_ |-> size, outputStream_ |-> stream]
  ELSE LET r == stream_simplex(size, stream)
       IN StreamSimplices(r.filtrationSize_, r.outputStream_, n - 1)

\* The complex with its identifier counter, as one record.
Complex ==
  [simplices |-> complex_, maxIndex |-> maxIndex_]

TowerCall(op, returned, inserted, first, vectors) ==
  [op |-> op, returned |-> returned, inserted |-> inserted, first |-> first, vectors |-> vectors,
   oldSize |-> filtrationSize_, oldWidth |-> towerWidth_]

\* The simplex the complex is asked to insert: the vertex itself for a
\* vertex, the translated vertices otherwise.
TransSimplex(simplex) ==
  IF Cardinality(simplex) = 1 THEN simplex ELSE {vertices_[x] : x \in simplex}

\* add_insertion(simplex, timestamp, simplexBoundary, simplexInsertionNumber),
\* for a simplex whose vertices are known and whose facets are in the complex
\* (the returned value is 1 for true, 0 for false).
add_insertion(simplex) ==
  /\ filtrationSize_ < MaxFiltrationSize
  /\ Cardinality(simplex) > 1 => simplex \subseteq DOMAIN vertices_
  /\ Cardinality(TransSimplex(simplex)) = Cardinality(simplex)
  /\ \A x \in TransSimplex(simplex) :
       TransSimplex(simplex) = {x} \/ (TransSimplex(simplex) \ {x}) \in complex_
  /\ LET x == CHOOSE y \in simplex : TRUE
         r == insert_simplex(Complex, TransSimplex(simplex))
         streamed == stream_simplex(filtrationSize_, outputStream_)
     IN /\ vertices_' = IF Cardinality(simplex) = 1 /\ x \notin DOMAIN vertices_
                        THEN [y \in DOMAIN vertices_ \cup {x} |-> IF y = x THEN x ELSE vertices_[y]]
                        ELSE vertices_
        /\ complex_' = r.cplx.simplices
        /\ maxIndex_' = r.cplx.maxIndex
        /\ IF r.inserted
           THEN /\ filtrationSize_' = streamed.filtrationSize_
                /\ outputStream_' = streamed.outputStream_
                /\ towerWidth_' = IF get_size(r.cplx.simplices) > towerWidth_
                                  THEN get_size(r.cplx.simplices) ELSE towerWidth_
           ELSE UNCHANGED <<filtrationSize_, outputStream_, towerWidth_>>
        /\ towerLast' = TowerCall("add_insertion", IF r.inserted THEN 1 ELSE 0,
                                  IF r.inserted THEN 1 ELSE 0,
                                  IF r.inserted THEN r.cplx.maxIndex ELSE -1, FALSE)
  /\ UNCHANGED OutsideTower

\* add_contraction(v, u, timestamp, addedBoundaries, removedIndices); vectors
\* tells whether addedBoundaries is a vector (TRUE) or NULL, as it is in
\* add_contraction(v, u, timestamp).
add_contraction(v, u, vectors) ==
  /\ filtrationSize_ < MaxFiltrationSize
  /\ v \in DOMAIN vertices_ /\ u \in DOMAIN vertices_
  /\ vertices_[v] # vertices_[u]
  /\ {vertices_[v], vertices_[u]} \in complex_
  /\ LET tv == vertices_[v]
         tu == vertices_[u]
     IN \E dis \in get_smallest_closed_star(complex_, tv, tu) :
          LET closedStar == get_union(IF dis = tu THEN tv ELSE tu, ClosedStar(complex_, dis))
              new == closedStar \ complex_
              n == Cardinality(new)
              streamed == StreamSimplices(filtrationSize_, outputStream_, n)
              after == remove_simplex(complex_ \cup new, dis)
              first == IF vectors /\ n > 0 THEN maxIndex_ + 1 ELSE -1
          IN /\ vertices_' = [y \in DOMAIN vertices_ \ {v} |->
                                IF y = u /\ dis = tu THEN tv ELSE vertices_[y]]
             /\ complex_' = after
             /\ maxIndex_' = maxIndex_ + n
             /\ filtrationSize_' = streamed.filtrationSize_
             /\ outputStream_' = streamed.outputStream_
             /\ towerWidth_' = IF get_size(after) > towerWidth_ THEN get_size(after) ELSE towerWidth_
             /\ towerLast' = TowerCall("add_contraction", first, n,
                                       IF n > 0 THEN maxIndex_ + 1 ELSE -1, vectors)
  /\ UNCHANGED OutsideTower

TowerInit ==
  /\ opt \in Options
  /\ MatrixInit(0)
  /\ NoColumns
  /\ NoUsets
  /\ NoTyped
  /\ NoRu
  /\ NoCells
  /\ NoCopy
  /\ NoChains
  /\ \E stream \in {NULL, 0} : Tower_converter(stream)
  /\ NoFile
  /\ NoWitnesses

TowerNext ==
  \/ \E simplex \in (SUBSET Vertices) \ {{}} : add_insertion(simplex)
  \/ \E v \in Vertices, u \in Vertices, vectors \in BOOLEAN : add_contraction(v, u, vectors)

TowerSpec ==
  TowerInit /\ [][TowerNext]_vars

\* ================================================= reading simplex files
\* The numbers a file is written with: dimensions, vertex labels and
\* filtration values.
Tokens == 0 .. MaxToken

\* The lines 'Dim X1 ... X(Dim+1) Fil' of a file: the vertices of a simplex
\* are written in increasing order.
Lines ==
  {[dim |-> Len(s) - 1, simplex |-> s, fil |-> f] :
     s \in {q \in UNION {[1 .. (d + 1) -> Tokens] : d \in 0 .. MaxDim} :
              \A i \in 1 .. (Len(q) - 1) : q[i] < q[i + 1]},
     f \in Tokens}

Files ==
  UNION {[1 .. n -> Lines] : n \in 0 .. MaxLines}

\* The text of a line, token by token.
LineTokens(l) ==
  <<l.dim>> \o l.simplex \o <<l.fil>>

\* The text of a sequence of lines as one stream.
RECURSIVE StreamTokens(_)
StreamTokens(lines) ==
  IF lines = <<>> THEN <<>> ELSE LineTokens(Head(lines)) \o StreamTokens(Tail(lines))

\* stream >> x: the next token, or x as it was when nothing is left (the
\* extraction fails and stores nothing).
Extract(tokens, x) ==
  IF tokens = <<>> THEN x ELSE Head(tokens)

\* What the stream holds after one extraction.
AfterExtract(tokens) ==
  IF tokens = <<>> THEN <<>> ELSE Tail(tokens)

\* std::map operator[] assignment.
MapPut(map, key, value) ==
  [k \in DOMAIN map \cup {key} |-> IF k = key THEN value ELSE map[k]]

\* read_graph, the loop `while (iss >> dim)` over one line: st holds the
\* locals vertices, edges (with edges_fil), max_h, u, v, fil.
RECURSIVE ReadLine(_, _)
ReadLine(st, tokens) ==
  IF tokens = <<>> THEN st
  ELSE LET dim == Head(tokens)
           t1 == Tail(tokens)
       IN IF dim = 0
          THEN LET u == Extract(t1, st.u)
                   fil == Extract(AfterExtract(t1), st.fil)
               IN ReadLine([st EXCEPT !.u = u, !.fil = fil,
                                      !.vertices = MapPut(st.vertices, u, fil),
                                      !.max_h = IF st.max_h < u THEN u ELSE st.max_h],
                           AfterExtract(AfterExtract(t1)))
          ELSE IF dim = 1
          THEN LET u == Extract(t1, st.u)
                   v == Extract(AfterExtract(t1), st.v)
                   fil == Extract(AfterExtract(AfterExtract(t1)), st.fil)
               IN ReadLine([st EXCEPT !.u = u, !.v = v, !.fil = fil,
                                      !.edges = Append(st.edges, <<u, v, fil>>)],
                           AfterExtract(AfterExtract(AfterExtract(t1))))
          ELSE ReadLine(st, t1)

\* read_graph, the loop `while (getline(in_, line))`.
RECURSIVE ReadLines(_, _)
ReadLines(st, lines) ==
  IF lines = <<>> THEN st
  ELSE ReadLines(ReadLine(st, LineTokens(Head(lines))), Tail(lines))

\* read_graph(file_name): the graph is built from edges, edges_fil and
\* vertices; u, v and fil start with the indeterminate values u0, v0, fil0.
read_graph(lines, u0, v0, fil0) ==
  LET st == ReadLines([vertices |-> <<>>, edges |-> <<>>, max_h |-> -1,
                       u |-> u0, v |-> v0, fil |-> fil0], lines)
  IN [vertices |-> st.vertices, edges |-> st.edges]

\* The file without its lines of dimension more than 1.
LowLines(lines) ==
  SelectSeq(lines, LAMBDA l : l.dim <= 1)

\* read_simplex, the loop `for (i = 0; i < dim + 1; ++i)` from i on.
RECURSIVE ReadVertices(_, _, _, _)
ReadVertices(tokens, simplex, dim, i) ==
  IF i >= dim + 1 THEN [ok |-> TRUE, simplex |-> simplex, in_ |-> tokens]
  ELSE IF tokens = <<>> THEN [ok |-> FALSE, simplex |-> simplex, in_ |-> tokens]
  ELSE ReadVertices(Tail(tokens), Append(simplex, Head(tokens)), dim, i + 1)

\* read_simplex(in_, simplex, fil) on a stream that holds a token, called
\* with an empty simplex: fil is not assigned.
read_simplex(tokens, fil) ==
  LET r == ReadVertices(Tail(tokens), <<>>, Head(tokens), 0)
  IN [ok |-> r.ok, simplex |-> r.simplex, fil |-> fil, in_ |-> r.in_]

IoCall(op, graph, lowGraph, ok, simplex, fil) ==
  [op |-> op, graph |-> graph, lowGraph |-> lowGraph, ok |-> ok, simplex |-> simplex, fil |-> fil]

ReadGraph(u0, v0, fil0) ==
  /\ ioLast' = IoCall("read_graph", read_graph(file, u0, v0, fil0),
                      read_graph(LowLines(file), u0, v0, fil0), TRUE, <<>>, 0)
  /\ UNCHANGED <<file, in_, calls, OutsideIo>>

\* One call of read_simplex; fil0 is what the caller's fil held.
ReadSimplex(fil0) ==
  /\ in_ # <<>>
  /\ LET r == read_simplex(in_, fil0)
     IN /\ in_' = r.in_
        /\ ioLast' = IoCall("read_simplex", <<>>, <<>>, r.ok, r.simplex, r.fil)
  /\ calls' = calls + 1
  /\ UNCHANGED <<file, OutsideIo>>

IoInit ==
  /\ opt \in Options
  /\ MatrixInit(0)
  /\ NoColumns
  /\ NoUsets
  /\ NoTyped
  /\ NoRu
  /\ NoCells
  /\ NoCopy
  /\ NoChains
  /\ NoTower
  /\ file \in Files
  /\ in_ = StreamTokens(file)
  /\ calls = 0
  /\ ioLast = NoIoCall
  /\ NoWitnesses

IoNext ==
  \/ \E u0 \in Tokens, v0 \in Tokens, fil0 \in Tokens : ReadGraph(u0, v0, fil0)
  \/ \E fil0 \in Tokens : ReadSimplex(fil0)

IoSpec ==
  IoInit /\ [][IoNext]_vars

\* ======================================================= Witness_complex
Landmarks == 0 .. (NumLandmarks - 1)

\* The nearest landmarks of one witness: distinct landmarks with their
\* squared distances, by increasing distance.
NearestLandmarkRanges ==
  {r \in UNION {[1 .. n -> [l : Landmarks, d : 0 .. MaxDistance]] : n \in 0 .. NumLandmarks} :
     /\ \A i, j \in 1 .. Len(r) : i < j => (r[i].l # r[j].l /\ r[i].d <= r[j].d)}

\* std::numeric_limits<double>::infinity(), above every distance.
infinity == MaxDistance + 1

\* The loop `for (; l_it != end && l_it->second - alpha2 <= norelax_dist2;
\* ++l_it)` from position i on: the positions it visits, each with
\* norelax_dist2 as it is when the body starts.
RECURSIVE Visited(_, _, _, _)
Visited(range, i, norelax_dist2, alpha2) ==
  IF i > Len(range) \/ range[i].d - alpha2 > norelax_dist2 THEN {}
  ELSE {[pos |-> i, limit_distance_ |-> norelax_dist2]}
         \cup Visited(range, i + 1,
                      IF range[i].d < norelax_dist2 THEN range[i].d ELSE norelax_dist2, alpha2)

\* An entry of a Simplex_witness_list_map: a simplex with one
\* Witness_for_simplex(last_it_, witness_, limit_distance_).
WitnessForSimplex(simplex, w, x) ==
  [simplex |-> simplex, witness_ |-> w, last_it_ |-> x.pos, limit_distance_ |-> x.limit_distance_]

\* fill_vertices: the entries of the vertex map; the vertices inserted into
\* the complex are their simplices.
fill_vertices(alpha2, table) ==
  UNION {{WitnessForSimplex({table[w][x.pos].l}, w, x) : x \in Visited(table[w], 1, infinity, alpha2)} :
           w \in 1 .. Len(table)}

\* The cofaces the witnesses of the entries of one dimension confirm: every
\* entry is continued from the landmark after last_it_.
Continued(alpha2, table, prev_dim_map) ==
  UNION {{WitnessForSimplex(e.simplex \cup {table[e.witness_][x.pos].l}, e.witness_, x) :
            x \in Visited(table[e.witness_], e.last_it_ + 1, e.limit_distance_, alpha2)} :
           e \in prev_dim_map}

\* fill_edges: the entries of the edge map; every one of them is inserted.
fill_edges(alpha2, table, dim0_map) ==
  Continued(alpha2, table, dim0_map)

\* all_faces_in(simplex, filtration_value, complex): every facet of the
\* simplex is in the complex.
all_faces_in(simplex, simplices) ==
  \A v \in simplex : (simplex \ {v}) \in simplices

\* fill_simplices: the entries of the map of dimension k; a coface is
\* inserted and recorded when all its faces are in the complex.
fill_simplices(alpha2, table, simplices, prev_dim_map) ==
  {e \in Continued(alpha2, table, prev_dim_map) : all_faces_in(e.simplex, simplices)}

SimplicesOf(map) ==
  {e.simplex : e \in map}

WitnessesOf(map) ==
  {e.witness_ : e \in map}

\* create_complex: the loop `while (!active_witnesses.empty() && k <=
\* limit_dimension)` and the final set_dimension(k-1).
RECURSIVE HigherDimensions(_, _, _, _, _, _)
HigherDimensions(alpha2, table, limit_dimension, k, st, prev_dim_map) ==
  IF st.active = {} \/ k > limit_dimension
  THEN [simplices |-> st.simplices, dimension |-> k - 1]
  ELSE LET curr_dim_map == fill_simplices(alpha2, table, st.simplices, prev_dim_map)
       IN HigherDimensions(alpha2, table, limit_dimension, k + 1,
                           [simplices |-> st.simplices \cup SimplicesOf(curr_dim_map),
                            active |-> st.active \cap WitnessesOf(curr_dim_map)],
                           curr_dim_map)

\* Witness_complex_wmap::create_complex on an empty complex with
\* max_alpha_square >= 0: after fill_edges a witness is active when it has an
\* entry in the edge map or none in the vertex map.
create_complex_wmap(alpha2, limit_dimension, table) ==
  LET dim0_map == fill_vertices(alpha2, table)
      dim1_map == fill_edges(alpha2, table, dim0_map)
      active == {w \in 1 .. Len(table) : w \in WitnessesOf(dim1_map) \/ w \notin WitnessesOf(dim0_map)}
  IN HigherDimensions(alpha2, table, limit_dimension, 2,
                      [simplices |-> SimplicesOf(dim0_map) \cup SimplicesOf(dim1_map),
                       active |-> active], dim1_map)

\* Witness_complex_cof::create_complex for limit_dimension < 2: the vertices,
\* then the edges add_all_faces_of_dimension(1, ...) finds for every witness
\* (a pair of landmarks the loops visit whose two vertices are in the
\* complex), then set_dimension(k-1) with k = 2.
create_complex_cof(alpha2, limit_dimension, table) ==
  LET dim0_map == fill_vertices(alpha2, table)
      edges == {e \in Continued(alpha2, table, dim0_map) :
                  all_faces_in(e.simplex, SimplicesOf(dim0_map))}
  IN [simplices |-> SimplicesOf(dim0_map) \cup SimplicesOf(edges), dimension |-> 1]

WitnessCall(class, limit_dimension, returned) ==
  [op |-> "create_complex", class |-> class, limit_dimension |-> limit_dimension,
   returned |-> returned]

\* create_complex(complex, max_alpha_square, limit_dimension) of
\* Witness_complex_wmap: refused on a complex that has vertices.
CreateComplexWmap(max_alpha_square, limit_dimension) ==
  /\ IF complex.simplices # {}
     THEN /\ complex' = complex
          /\ witnessLast' = WitnessCall("Witness_complex_wmap", limit_dimension, FALSE)
     ELSE /\ complex' = create_complex_wmap(max_alpha_square, limit_dimension, nearest_landmark_table_)
          /\ witnessLast' = WitnessCall("Witness_complex_wmap", limit_dimension, TRUE)
  /\ UNCHANGED <<nearest_landmark_table_, OutsideWitness>>

\* The same of Witness_complex_cof.
CreateComplexCof(max_alpha_square, limit_dimension) ==
  /\ IF complex.simplices # {}
     THEN /\ complex' = complex
          /\ witnessLast' = WitnessCall("Witness_complex_cof", limit_dimension, FALSE)
     ELSE /\ complex' = create_complex_cof(max_alpha_square, limit_dimension, nearest_landmark_table_)
          /\ witnessLast' = WitnessCall("Witness_complex_cof", limit_dimension, TRUE)
  /\ UNCHANGED <<nearest_landmark_table_, OutsideWitness>>

WitnessInit ==
  /\ opt = [is_z2 |-> TRUE, p |-> 2]
  /\ MatrixInit(0)
  /\ NoColumns
  /\ NoUsets
  /\ NoTyped
  /\ NoRu
  /\ NoCells
  /\ NoCopy
  /\ NoChains
  /\ NoTower
  /\ NoFile
  /\ nearest_landmark_table_ \in [1 .. NumWitnesses -> NearestLandmarkRanges]
  /\ complex = EmptyComplex
  /\ witnessLast = NoWitnessCall

WitnessNext ==
  \/ \E a \in 0 .. MaxDistance, limit \in 0 .. MaxLimitDimension : CreateComplexWmap(a, limit)
  \/ \E a \in 0 .. MaxDistance, limit \in 0 .. 1 : CreateComplexCof(a, limit)

WitnessSpec ==
  WitnessInit /\ [][WitnessNext]_vars

\* ================================================================ claims

\* C1: after add_to(source, t) on a target whose column is non-zero, every
\* column index that was in t's class before the call reads old(t) + source,
\* whether the source is an index or a cell range, also when the sum is zero
\* or equals the content of another class.
AddToUpdatesWholeClass ==
  (last.op = "add_to" /\ last.before[last.tgt] # <<>>) =>
    /\ fault = "none"
    /\ \A i \in last.oldClass :
         get_column(Matrix, i) = Combination(opt, 1, last.before[last.tgt], 1, last.oldSource)

\* C1 witness: an add_to on a class of two indices whose sum is the content
\* of another class, which the two indices have joined.
AddToMergedTwoClasses ==
  /\ last.op = "add_to"
  /\ Cardinality(last.oldClass) >= 2
  /\ get_column(Matrix, last.tgt) # <<>>
  /\ \E j \in ColumnIndices : j \notin last.oldClass /\ SameClass(j, last.tgt)

\* C2 (as claimed): add_to and the multiply variants are defined on a target
\* whose column is zero: the call completes and t reads the source (scaled
\* by the coefficient for multiply_source_and_add_to).
AdditionDefinedOnZeroTarget ==
  (last.op \in AdditionOps /\ last.before[last.tgt] = <<>>) =>
    /\ fault = "none"
    /\ get_column(Matrix, last.tgt) =
         Combination(opt, 0, <<>>,
                     IF last.op = "multiply_source_and_add_to" THEN last.coef ELSE 1,
                     last.oldSource)

SameClassSameContent ==
  \A i, j \in ColumnIndices :
    SameClass(i, j) =>
      /\ get_column(Matrix, i) = get_column(Matrix, j)
      /\ is_zero_column(Matrix, i) = is_empty(get_column(Matrix, j))
      /\ \A r \in Rows : is_zero_cell(Matrix, i, r) = (Dense(get_column(Matrix, j))[r] = 0)

\* C4 witness: after an addition, a class of at least two indices with a
\* non-zero column.
ClassOfTwoAfterAddition ==
  /\ last.op \in AdditionOps
  /\ fault = "none"
  /\ \E i, j \in ColumnIndices : i # j /\ SameClass(i, j) /\ ~is_zero_column(Matrix, i)

\* C5 (as claimed): multiply_target_and_add_to(source, c, t) leaves t equal
\* to c * old(t) + old(source), for every c and every source index, the
\* target itself and the indices of its class included.
MultiplyTargetAndAddToResult ==
  (last.op = "multiply_target_and_add_to" /\ fault = "none" /\ last.idx >= 0) =>
    get_column(Matrix, last.tgt) =
      Combination(opt, last.coef, last.before[last.tgt], 1, last.oldSource)

MultiplyAndAddIsPointwise ==
  (colLast.op \in {"multiply_target_and_add", "multiply_source_and_add"}
     /\ colLast.src # colLast.tgt) =>
    \A n \in 0 .. (NumRows + 1) :
      get_content(cols[colLast.tgt], n) =
        FieldCombination(opt,
                         IF colLast.op = "multiply_target_and_add" THEN colLast.val ELSE 1,
                         get_content(colLast.oldTarget, n),
                         IF colLast.op = "multiply_source_and_add" THEN colLast.val ELSE 1,
                         get_content(colLast.oldSource, n))

\* C7 witness: a multiply_target_and_add with a coefficient other than 0 and
\* 1 on two distinct non-empty columns, where a row of the target cancels.
MultiplyTargetCancelledRow ==
  /\ colLast.op = "multiply_target_and_add"
  /\ colLast.src # colLast.tgt
  /\ colLast.val > 1
  /\ colLast.oldSource # <<>>
  /\ \E r \in Rows : Dense(colLast.oldTarget)[r] # 0 /\ Dense(cols[colLast.tgt])[r] = 0

\* C8: the cells of a column are stored by strictly increasing row index, so
\* every row occurs at most once.
RowsStrictlyIncreasing ==
  \A k \in DOMAIN cols :
    \A i, j \in 1 .. Len(cols[k]) : i < j => cols[k][i].row < cols[k][j].row

\* C8 witness: a reorder that exchanged the rows of a column of two cells.
ReorderExchangedRows ==
  /\ colLast.op = "reorder"
  /\ Len(cols[colLast.tgt]) >= 2
  /\ \E r \in Rows : Dense(cols[colLast.tgt])[r] # Dense(colLast.oldTarget)[r]

PivotIsLargestNonZeroRow ==
  \A k \in DOMAIN cols :
    LET NonZeroRows == {r \in Rows : Dense(cols[k])[r] # 0}
    IN /\ (NonZeroRows = {} => get_pivot(cols[k]) = -1)
       /\ (NonZeroRows # {} =>
             /\ get_pivot(cols[k]) \in NonZeroRows
             /\ \A r \in NonZeroRows : r <= get_pivot(cols[k]))
       /\ (get_pivot(cols[k]) = -1 <=> is_empty(cols[k]))

\* C10 witness: an operation removed the pivot cell of a column and left a
\* lower row as the new pivot.
PivotMovedDown ==
  /\ colLast.op \in {"clear(row)", "operator+=", "multiply_source_and_add"}
  /\ get_pivot(cols[colLast.tgt]) >= 0
  /\ get_pivot(cols[colLast.tgt]) < get_pivot(colLast.oldTarget)

\* C11 (as claimed): whatever add, clear(), clear(value) and reorder(map)
\* calls were made on a Z2_unordered_set_column, get_pivot() returns the
\* largest row of the column, or -1 if the column is empty.
LazyPivotIsLargestRow ==
  \A k \in DOMAIN usets :
    uset_get_pivot(usets[k]).value =
      IF usets[k].column_ = {} THEN -1 ELSE max_element(usets[k].column_)

\* C12: operator*=(v) with any unsigned v: on a chain column with v
\* congruent to 0 modulo p std::invalid_argument is raised; on any other
\* column with v congruent to 0 the column becomes empty; otherwise every
\* stored value is multiplied by v mod p, the stored rows are unchanged and no
\* value becomes 0.
TimesAssignScales ==
  typedLast.op = "operator*=" =>
    LET old == typedLast.oldTarget.column_
        new == typed[typedLast.tgt].column_
        zero == typedLast.val % opt.p = 0
    IN /\ (zero /\ ~is_of_boundary_type) => typedLast.thrown = "std::invalid_argument"
       /\ (zero /\ is_of_boundary_type) => (typedLast.thrown = "none" /\ new = <<>>)
       /\ (~zero) =>
            /\ typedLast.thrown = "none"
            /\ Len(new) = Len(old)
            /\ \A i \in 1 .. Len(old) :
                 /\ new[i].row = old[i].row
                 /\ new[i].el = (old[i].el * (typedLast.val % opt.p)) % opt.p
                 /\ new[i].el # 0

\* C12 witness: a chain column of Z/3 multiplied by 2, which changed its
\* cells.
TimesAssignChangedValues ==
  /\ typedLast.op = "operator*="
  /\ ~is_of_boundary_type
  /\ typedLast.val % opt.p = 2
  /\ typed[typedLast.tgt].column_ # typedLast.oldTarget.column_

\* C13: multiplying a chain column by zero (operator*= with v congruent to 0,
\* multiply_target_and_add with coefficient 0) fails with
\* std::invalid_argument and leaves the cells, stored pivot and dimension of
\* the target and of the source as they were.
ChainTimesZeroThrowsUnchanged ==
  /\ (~is_of_boundary_type
        /\ \/ (typedLast.op = "operator*=" /\ typedLast.val % opt.p = 0)
           \/ (typedLast.op = "multiply_target_and_add" /\ typedLast.val = 0))
       => typedLast.thrown = "std::invalid_argument"
  /\ typedLast.thrown # "none" =>
       /\ typed[typedLast.tgt] = typedLast.oldTarget
       /\ typed[typedLast.src] = typedLast.oldSource

\* C13 witness: a multiply_target_and_add with coefficient 0 from another
\* column, in Z/p, that threw.
ChainMultiplyTargetThrew ==
  /\ ~is_of_boundary_type
  /\ ~opt.is_z2
  /\ typedLast.op = "multiply_target_and_add"
  /\ typedLast.tgt # typedLast.src
  /\ typedLast.thrown = "std::invalid_argument"

\* The entry of the target at its stored pivot row was cancelled by the last
\* call: non-zero before, zero after.
PivotEntryCancelled ==
  /\ typedLast.oldTarget.pivot_ \in Rows
  /\ Dense(typedLast.oldTarget.column_)[typedLast.oldTarget.pivot_] # 0
  /\ Dense(typed[typedLast.tgt].column_)[typedLast.oldTarget.pivot_] = 0

PivotValueIsPivotEntry ==
  \A k \in DOMAIN typed :
    get_pivot_value(opt, is_of_boundary_type, typed[k]) =
      IF typed[k].column_ = <<>> THEN 0
      ELSE IF typed_get_pivot(is_of_boundary_type, typed[k]) \in Rows
           THEN Dense(typed[k].column_)[typed_get_pivot(is_of_boundary_type, typed[k])]
      ELSE 0

\* Number of union-find classes among the inserted column indices.
NumberOfClasses ==
  Cardinality({find_set(columnClasses_, i) : i \in ColumnIndices})

\* C16: the union-find only merges: two inserted indices of one class are of
\* one class after every later insert_boundary, add_to and
\* multiply_*_and_add_to, and the number of classes, like the number of
\* stored columns, never exceeds the number of inserted columns.
ClassesOnlyMerge ==
  [][/\ \A i, j \in ColumnIndices : SameClass(i, j) => SameClass(i, j)'
     /\ NumberOfClasses' <= nextColumnIndex_'
     /\ Cardinality(columnToRep_)' <= NumberOfClasses']_vars

\* C16 witness: an addition into the column of a third index, after which it
\* shares the class that the first two indices already shared.
ThirdIndexJoinedClass ==
  /\ last.op \in AdditionOps
  /\ fault = "none"
  /\ nextColumnIndex_ = 3
  /\ last.oldClass = {last.tgt}
  /\ \E i, j \in ColumnIndices \ {last.tgt} :
       i # j /\ SameClass(i, j) /\ SameClass(i, last.tgt)
          /\ get_column(Matrix, i) = last.before[i]

\* C17: after every insertion of the standard reduction the pivot table is a
\* partial injection: no two distinct non-zero columns of R have the same
\* pivot row, and pivot_table[i] = j implies that column j is non-zero with
\* pivot i.
PivotTableIsPartialInjection ==
  /\ \A j1, j2 \in 1 .. Len(R) :
       (j1 # j2 /\ R[j1] # <<>> /\ R[j2] # <<>>) => get_pivot(R[j1]) # get_pivot(R[j2])
  /\ \A i \in Rows :
       pivot_table[i] # -1 =>
         /\ pivot_table[i] \in 0 .. (Len(R) - 1)
         /\ R[pivot_table[i] + 1] # <<>>
         /\ get_pivot(R[pivot_table[i] + 1]) = i

\* C17 witness: the column inserted last was reduced against an earlier
\* column, stayed non-zero and owns a pivot row of its own.
ReducedColumnOwnsPivot ==
  /\ Len(R) >= 2
  /\ ruLast.reductions >= 1
  /\ R[Len(R)] # <<>>
  /\ pivot_table[get_pivot(R[Len(R)])] = Len(R) - 1

\* Number of cells of tag c and row r stored in the live columns.
StoredCells(cell) ==
  Cardinality({<<k, i>> \in (1 .. 2) \X (1 .. NumRows) :
                 /\ cellColumns[k].live
                 /\ i <= Len(cellColumns[k].column_)
                 /\ CellTag(has_row_access, k) = cell.col
                 /\ cellColumns[k].column_[i].row = cell.row})

\* C18 (as claimed): after every completed operation the cells constructed
\* by the factory and not yet destroyed are exactly the cells stored in the
\* live columns.
FactoryHoldsStoredCells ==
  \A cell \in PoolCells : cellPool_[cell] = StoredCells(cell)

\* C19: with row access, the row container of row r holds a cell of column c
\* if and only if column c stores a non-zero cell at row r.
RowContainerMatchesColumns ==
  has_row_access =>
    \A r \in Rows, c \in 1 .. 2 :
      (rowContainer[r][c] >= 1) <=>
        (cellColumns[c].live
           /\ \E i \in 1 .. Len(cellColumns[c].column_) :
                cellColumns[c].column_[i].row = r /\ cellColumns[c].column_[i].el # 0)

\* C19 witness: with row access, an addition between two columns that left
\* both non-empty (the source being non-empty, the target was changed), one
\* row holding a cell of each and another row a cell of one of them only.
AddedLinkedColumns ==
  /\ has_row_access
  /\ cellLast.op = "operator+="
  /\ \A c \in 1 .. 2 : cellColumns[c].column_ # <<>>
  /\ \E r \in Rows : rowContainer[r][1] >= 1 /\ rowContainer[r][2] >= 1
  /\ \E r \in Rows : (rowContainer[r][1] >= 1) # (rowContainer[r][2] >= 1)

\* C20: after reorder(map) of a base or boundary column, map injective on the
\* stored rows, the column stores exactly the cells (map(r), v) of the cells
\* (r, v) stored before, and its rows are strictly increasing.
ReorderMapsRows ==
  colLast.op = "reorder" =>
    LET old == colLast.oldTarget
        new == cols[colLast.tgt]
    IN /\ Len(new) = Len(old)
       /\ {<<new[i].row, new[i].el>> : i \in 1 .. Len(new)}
            = {<<colLast.val[old[i].row], old[i].el>> : i \in 1 .. Len(old)}
       /\ \A i, j \in 1 .. Len(new) : i < j => new[i].row < new[j].row

\* C20 witness: a reorder of a column of two cells of different values whose
\* map reverses the order of their rows.
ReorderReversedValues ==
  /\ colLast.op = "reorder"
  /\ Len(colLast.oldTarget) = 2
  /\ colLast.oldTarget[1].el # colLast.oldTarget[2].el
  /\ colLast.val[colLast.oldTarget[1].row] > colLast.val[colLast.oldTarget[2].row]
  /\ cols[colLast.tgt][1].el = colLast.oldTarget[2].el

\* C27: after every public operation of the compressed matrix,
\* repToColumn_[r] is non-null only for a union-find root r; every non-null
\* repToColumn_[r] is a non-empty column stored in the dictionary with
\* get_rep() = r; the dictionary holds exactly these columns; and no two
\* columns of the dictionary have equal content.
RepresentativesMatchDictionary ==
  /\ \A r \in DOMAIN repToColumn_ :
       repToColumn_[r] # nullptr =>
         /\ find_set(columnClasses_, r) = r
         /\ columnPool_[repToColumn_[r]].live
         /\ ~is_empty(columnPool_[repToColumn_[r]].column_)
         /\ repToColumn_[r] \in columnToRep_
         /\ columnPool_[repToColumn_[r]].rep = r
  /\ columnToRep_ = {repToColumn_[r] : r \in {x \in DOMAIN repToColumn_ : repToColumn_[x] # nullptr}}
  /\ \A a, b \in columnToRep_ :
       a # b => columnPool_[a].column_ # columnPool_[b].column_

\* C27 witness: after an addition that emptied its target, a matrix of three
\* inserted columns with a class of two whose column is held by its root,
\* the third index holding no column.
RootHoldsColumnOfClass ==
  /\ last.op \in AdditionOps
  /\ fault = "none"
  /\ nextColumnIndex_ = 3
  /\ Cardinality(columnToRep_) = 1
  /\ \E r, i, z \in ColumnIndices :
       /\ r # i /\ find_set(columnClasses_, i) = r /\ repToColumn_[r] # nullptr
       /\ repToColumn_[i] = nullptr
       /\ z = last.tgt /\ ~SameClass(z, r) /\ last.before[z] # <<>> /\ is_zero_column(Matrix, z)

\* C28: add_to, multiply_target_and_add_to and multiply_source_and_add_to
\* change only the columns of the target's class: every column index that
\* was outside that class before the call reads the same content after it,
\* and get_number_of_columns is unchanged.
AdditionChangesTargetClassOnly ==
  last.op \in AdditionOps =>
    /\ \A i \in ColumnIndices \ last.oldClass : get_column(Matrix, i) = last.before[i]
    /\ get_number_of_columns(Matrix) = Size(last.before)

\* C28 witness: an addition that changed its target and merged the target's
\* class into the class of another index, which reads what it read before.
AdditionMergedIntoOtherClass ==
  /\ last.op \in AdditionOps
  /\ fault = "none"
  /\ get_column(Matrix, last.tgt) # last.before[last.tgt]
  /\ \E i \in ColumnIndices \ last.oldClass :
       /\ SameClass(i, last.tgt)
       /\ get_column(Matrix, i) = last.before[i]
       /\ last.idx # i

\* C30: operator< is a strict total order on column contents, a proper
\* prefix being smaller, and for all columns a, b exactly one of a < b, b < a,
\* a == b holds, with a == b iff the two columns store the same cells.
ComparisonIsStrictTotalOrder ==
  LET a == cols[1]
      b == cols[2]
      One(x, y, z) == (x /\ ~y /\ ~z) \/ (~x /\ y /\ ~z) \/ (~x /\ ~y /\ z)
  IN /\ One(operator_less(opt, a, b), operator_less(opt, b, a), operator_equal(opt, a, b))
     /\ operator_equal(opt, a, b) <=> (a = b)
     /\ (Len(a) < Len(b) /\ SubSeq(b, 1, Len(a)) = a) => operator_less(opt, a, b)
     /\ \A boundary \in Boundaries(opt) :
          LET c == Naive_vector_column(opt, boundary)
          IN /\ (operator_less(opt, a, b) /\ operator_less(opt, b, c)) => operator_less(opt, a, c)
             /\ (operator_less(opt, c, a) /\ operator_less(opt, a, b)) => operator_less(opt, c, b)
             /\ ~operator_less(opt, c, c)

\* C30 witness: after a column operation, two columns of the same rows that
\* differ in a value only, and are ordered by it.
ColumnsOrderedByValue ==
  /\ colLast.op # "none"
  /\ Len(cols[1]) = 2 /\ Len(cols[2]) = 2
  /\ \A i \in 1 .. 2 : cols[1][i].row = cols[2][i].row
  /\ cols[1][1].el = cols[2][1].el
  /\ cols[1][2].el < cols[2][2].el
  /\ operator_less(opt, cols[1], cols[2])

\* C25: a copy of the matrix, made by the copy constructor or by operator=,
\* shows the same number of columns and the same content at every column
\* index as the original, whatever the original holds (zero columns,
\* redundant columns, reserved slots not yet used), and later additions on
\* the copy leave the original as it was.
CopyShowsWhatOriginalShows ==
  copy.made =>
    /\ Contents(Matrix) = copyLast.original
    /\ copyLast.op \in {"copy_constructor", "operator="} =>
         /\ copy.fault = "none"
         /\ get_number_of_columns(copy.m) = get_number_of_columns(Matrix)
         /\ \A i \in 0 .. (nextColumnIndex_ - 1) : get_column(copy.m, i) = get_column(Matrix, i)

\* C26: if before t += s the dictionary sends the pivot of t to the index of
\* t and the pivot of s to the index of s, then it does so after the
\* addition, whether the pivots were swapped or not, and a dictionary that
\* was a partial injection is still one.
ChainAdditionKeepsDictionary ==
  (chainLast.op = "operator+=" /\ chainLast.agreed) =>
    /\ ~chainLast.thrown
    /\ DictionaryAgrees(pivotToColumnIndex_, chains, chainLast.tgt)
    /\ DictionaryAgrees(pivotToColumnIndex_, chains, chainLast.src)
    /\ chainLast.injective => IsPartialInjection(pivotToColumnIndex_)

\* C26 witness: an addition between two columns the dictionary agreed with
\* absorbed the target's pivot, and entries and pivots were swapped.
ChainAdditionSwappedDictionary ==
  /\ chainLast.op = "operator+="
  /\ chainLast.agreed
  /\ chainLast.injective
  /\ chainLast.swapped
  /\ chainLast.tgt # chainLast.src
  /\ pivotToColumnIndex_[chains[chainLast.tgt].pivot_] = chainLast.tgt

\* C21: add_contraction, in both overloads, returns the identifier of the
\* first simplex it inserted whenever it inserted at least one; the further
\* new simplices take the identifiers that follow.
ContractionReturnsFirstIdentifier ==
  (towerLast.op = "add_contraction" /\ towerLast.inserted >= 1) =>
    /\ towerLast.returned = towerLast.first
    /\ maxIndex_ = towerLast.first + towerLast.inserted - 1

\* C29: the filtration size is the number of simplices inserted so far, one
\* per successful add_insertion and one per simplex a contraction inserted,
\* with or without output file; a refused add_insertion changes neither the
\* filtration size nor the tower width; the tower width never decreases.
FiltrationSizeCountsInsertions ==
  /\ filtrationSize_ = maxIndex_ + 1
  /\ towerLast.op # "none" => filtrationSize_ = towerLast.oldSize + towerLast.inserted
  /\ (towerLast.op = "add_insertion" /\ towerLast.returned = 0) =>
       (filtrationSize_ = towerLast.oldSize /\ towerWidth_ = towerLast.oldWidth)
  /\ towerWidth_ >= towerLast.oldWidth
  /\ towerWidth_ >= get_size(complex_)

\* C29 witness: without output file, a contraction inserted two simplices
\* and left a complex smaller than the tower width.
ContractionCountedWithoutOutput ==
  /\ outputStream_ = NULL
  /\ towerLast.op = "add_contraction"
  /\ towerLast.inserted >= 2
  /\ towerWidth_ > get_size(complex_)

\* C23: read_graph ignores every line of dimension more than 1: the graph it
\* returns is the one it returns for the file without those lines.
ReadGraphIgnoresHigherLines ==
  ioLast.op = "read_graph" => ioLast.graph = ioLast.lowGraph

\* C24: the k-th call of read_simplex on a stream of lines
\* 'Dim X1 ... X(Dim+1) Fil' returns the vertices of the k-th line and its
\* filtration value in fil, and consumes that whole line.
ReadSimplexReturnsRecord ==
  (ioLast.op = "read_simplex" /\ calls <= Len(file)) =>
    /\ ioLast.ok
    /\ ioLast.simplex = file[calls].simplex
    /\ ioLast.fil = file[calls].fil
    /\ in_ = StreamTokens(SubSeq(file, calls + 1, Len(file)))

\* Dimension of the largest simplex of the complex, -1 when it is empty.
LargestDimension(simplices) ==
  IF simplices = {} THEN -1
  ELSE CHOOSE d \in 0 .. NumLandmarks :
         /\ \E s \in simplices : Cardinality(s) - 1 = d
         /\ \A s \in simplices : Cardinality(s) - 1 <= d

\* C22: for every limit_dimension >= 0, 0 and 1 included, after a successful
\* create_complex of Witness_complex_wmap or Witness_complex_cof the complex
\* has no simplex of dimension above limit_dimension and the dimension given
\* to set_dimension is at most limit_dimension.
ComplexWithinLimitDimension ==
  (witnessLast.op = "create_complex" /\ witnessLast.returned) =>
    /\ LargestDimension(complex.simplices) <= witnessLast.limit_dimension
    /\ complex.dimension <= witnessLast.limit_dimension

====
